---- MODULE Spec2Model ----
(***************************************************************************)
(* Verification model of the BIM question-answering server:                *)
(*   routes/chat.js        - the chat pipeline (router.post('/'))          *)
(*   services/gemini.js    - geminiText / geminiJson                       *)
(*   services/aps.js       - the two-legged token cache                    *)
(*   services/extract.js, services/snapshotIngest.js,                      *)
(*   scripts/migrate-to-sqlite.js - the three ingest paths                 *)
(*   services/sqlite.js    - the elements table and semanticSearch         *)
(*                                                                         *)
(* JavaScript values are tagged records.  A string is a sequence of        *)
(* tokens; the token WS is a blank, so that trimming is an operation on    *)
(* the value and not the identity.                                         *)
(***************************************************************************)
EXTENDS Integers, Sequences, FiniteSets, TLC

VARIABLES
    \* ---- configuration (config.js, read once from the environment) ----
    config,
    \* ---- services/gemini.js ----
    gPc, gMode, gMaxRetries, gI, gLastErr, gTextCalls, gProviderCalls,
    gOutcomes, gResult,
    \* ---- services/aps.js ----
    tokenCache, now, calls, tokProviderCalls,
    \* ---- services/sqlite.js: the elements table ----
    db, nextId,
    \* ---- the ingest run in progress (extract / snapshot / migrate) ----
    run, runsStarted,
    \* ---- routes/chat.js: the chat request in progress ----
    chat,
    \* ---- one call of a function of the services, with its arguments and
    \*      its return value ----
    call

dbVars == <<db, nextId>>
ingVars == <<run, runsStarted>>

tokVars == <<tokenCache, now, calls, tokProviderCalls>>

gemVars == <<gPc, gMode, gMaxRetries, gI, gLastErr, gTextCalls,
             gProviderCalls, gOutcomes, gResult>>

chatVars == <<chat>>
fnVars == <<call>>

vars == <<config, gemVars, tokVars, dbVars, ingVars, chatVars, fnVars>>

----------------------------------------------------------------------------
(* JavaScript values *)

Null == [t |-> "null"]
Str(s) == [t |-> "str", s |-> s]
Num(n) == [t |-> "num", n |-> n]
Bool(b) == [t |-> "bool", b |-> b]

WS == " "

IsStr(v) == v.t = "str"
IsNullish(v) == v.t = "null"

\* JavaScript truthiness
Truthy(v) ==
    CASE v.t = "null" -> FALSE
      [] v.t = "str" -> v.s # <<>>
      [] v.t = "num" -> v.n # 0
      [] v.t = "bool" -> v.b
      [] OTHER -> TRUE

RECURSIVE TrimLeft(_)
TrimLeft(s) ==
    IF s = <<>> THEN <<>>
    ELSE IF Head(s) = WS THEN TrimLeft(Tail(s)) ELSE s

RECURSIVE TrimRight(_)
TrimRight(s) ==
    IF s = <<>> THEN <<>>
    ELSE IF s[Len(s)] = WS THEN TrimRight(SubSeq(s, 1, Len(s) - 1)) ELSE s

\* String.prototype.trim
Trim(s) == TrimRight(TrimLeft(s))

Range(s) == {s[i] : i \in DOMAIN s}

----------------------------------------------------------------------------
(* config.js: which credentials the environment supplies *)

ConfigChoices ==
    [GEMINI_API_KEY : BOOLEAN, APS : BOOLEAN, OPENAI_API_KEY : BOOLEAN]

----------------------------------------------------------------------------
(* services/dmMapping.js and the helpers the three ingest paths share *)

\* A property key or a mapping keyword is a sequence of tokens: words, and
\* the separators ".", "_", "-" and WS.  A word is one unit: a keyword
\* matches a key when its words occur in the key as consecutive words.
Separators == {".", "_", "-", WS}

\* String.prototype.toLowerCase on the words used in keys and values
Lower(w) ==
    CASE w = "Category" -> "category" [] w = "OmniClass" -> "omniclass"
      [] w = "Title" -> "title" [] w = "Type" -> "type" [] w = "Name" -> "name"
      [] w = "Level" -> "level" [] w = "Area" -> "area"
      [] w = "Identity" -> "identity" [] w = "Data" -> "data"
      [] w = "Family" -> "family" [] w = "Constraints" -> "constraints"
      [] w = "Dimensions" -> "dimensions" [] w = "Door" -> "door"
      [] w = "Wall" -> "wall" [] w = "Revit" -> "revit" [] w = "Walls" -> "walls"
      [] w = "Doors" -> "doors"
      [] OTHER -> w

RECURSIVE normalizeKey(_)
\* lower-case, separators and punctuation to blanks, blanks collapsed, trimmed
normalizeKey(k) ==
    IF k = <<>> THEN <<>>
    ELSE IF Head(k) \in Separators THEN normalizeKey(Tail(k))
    ELSE <<Lower(Head(k))>> \o normalizeKey(Tail(k))

\* v === null || v === undefined || (typeof v === 'string' && v.trim() === '')
isEmpty(v) == IsNullish(v) \/ (IsStr(v) /\ Trim(v.s) = <<>>)

\* kN.includes(kwN)
Includes(kN, kwN) ==
    \E i \in 0..(Len(kN) - Len(kwN)) : SubSeq(kN, i + 1, i + Len(kwN)) = kwN

\* the first entry of flat, in insertion order, whose value is not empty and
\* whose key includes the keyword
RECURSIVE FirstMatch(_, _)
FirstMatch(flat, kwN) ==
    IF flat = <<>> THEN Null
    ELSE IF ~isEmpty(Head(flat).v) /\ Includes(normalizeKey(Head(flat).k), kwN)
         THEN Head(flat).v
    ELSE FirstMatch(Tail(flat), kwN)

RECURSIVE findInFlat(_, _)
findInFlat(flat, keywords) ==
    IF flat = <<>> \/ keywords = <<>> THEN Null
    ELSE LET kwN == normalizeKey(Head(keywords))
             hit == IF kwN = <<>> THEN Null ELSE FirstMatch(flat, kwN)
         IN IF hit # Null THEN hit ELSE findInFlat(flat, Tail(keywords))

\* dmMapping.js, flattened to one keyword list per logical field
mapping ==
    [ component_type |->
          << <<"component", "_", "type">>, <<"category">>,
             <<"revit", WS, "category">>, <<"category", WS, "name">>,
             <<"omniclass", WS, "title">>,
             <<"identity", WS, "data", ".", "omniclass", WS, "title">> >>,
      type_name |->
          << <<"type", WS, "name">>, <<"type">>,
             <<"identity", WS, "data", ".", "type", WS, "name">>,
             <<"typename">> >>,
      family_name |->
          << <<"family", WS, "name">>, <<"family">>,
             <<"identity", WS, "data", ".", "family", WS, "name">>,
             <<"familyname">> >>,
      level_number |->
          << <<"level", "_", "number">>, <<"level">>, <<"base", WS, "level">>,
             <<"reference", WS, "level">>, <<"level", WS, "name">>,
             <<"story">> >>,
      room_type |-> << <<"room", WS, "type">>, <<"space", WS, "type">> >>,
      room_name |->
          << <<"room", "_", "name">>, <<"room">>, <<"room", WS, "name">>,
             <<"space">>, <<"space", WS, "name">> >>,
      system_type |->
          << <<"system", "_", "type">>, <<"system", WS, "type">> >>,
      system_name |->
          << <<"system", "_", "name">>, <<"system", WS, "name">>,
             <<"system">> >>,
      manufacturer |-> << <<"manufacturer">>, <<"mfr">>, <<"make">> >>,
      model_name |->
          << <<"model", "_", "name">>, <<"model">>, <<"model", WS, "name">> >>,
      omniclass_title |->
          << <<"omniclass", WS, "title">>, <<"title">>, <<"omniclass">> >> ]

\* the words of a string value, lower-cased
RECURSIVE LowerWords(_)
LowerWords(s) ==
    IF s = <<>> THEN {} ELSE {Lower(Head(s))} \cup LowerWords(Tail(s))

\* String(v) of a found value; `${x || ''}` of an absent one
StrOf(v) == IF IsStr(v) THEN v.s ELSE <<>>

\* inferCategory(typeName, familyName): the first pattern found in the
\* lower-cased "typeName familyName"
inferCategory(typeName, familyName) ==
    LET w == LowerWords(StrOf(typeName)) \cup LowerWords(StrOf(familyName)) IN
    IF "door" \in w THEN Str(<<"Doors">>)
    ELSE IF "window" \in w THEN Str(<<"Windows">>)
    ELSE IF "wall" \in w THEN Str(<<"Walls">>)
    ELSE IF "floor" \in w THEN Str(<<"Floors">>)
    ELSE IF "room" \in w THEN Str(<<"Rooms">>)
    ELSE Null

\* a || b for values
OrElse(a, b) == IF Truthy(a) THEN a ELSE b

\* the ten attributes of the allow-list, which are also getMeta's sampleKeys
AllowedParams ==
    {"level_number", "room_name", "room_type", "system_name", "system_type",
     "manufacturer", "model_name", "type_name", "family_name",
     "omniclass_title"}

\* scripts/preprocess-data.js: CATEGORY_MAP on the lower-cased label (the
\* entries for the labels of the model), <<>> for a label without an entry
CATEGORY_MAP(lower) ==
    CASE lower = <<"revit", WS, "walls">> -> <<"Walls">>
      [] lower = <<"revit", WS, "doors">> -> <<"Doors">>
      [] OTHER -> <<>>

\* w.charAt(0).toUpperCase() + w.slice(1) on the words of the model
Capitalize(w) ==
    CASE w = "walls" -> "Walls" [] w = "doors" -> "Doors"
      [] w = "wall" -> "Wall" [] w = "door" -> "Door"
      [] OTHER -> w

\* normalizeCategory(rawCategory): the mapped label, or the rest of a label
\* that starts with "revit" capitalised word by word, or the trimmed label
normalizeCategory(rawCategory) ==
    IF ~Truthy(rawCategory) THEN Null
    ELSE LET raw == StrOf(rawCategory)
             lower == Trim([i \in DOMAIN raw |-> Lower(raw[i])])
         IN IF CATEGORY_MAP(lower) # <<>> THEN Str(CATEGORY_MAP(lower))
            ELSE IF Len(lower) >= 3 /\ lower[1] = "revit" /\ lower[2] = WS
            THEN LET extracted == Trim(SubSeq(lower, 3, Len(lower)))
                 IN Str([i \in DOMAIN extracted |-> Capitalize(extracted[i])])
            ELSE Str(Trim(raw))

\* component_type as build5Groups / extractGroups / transformElement compute it
componentTypeOf(flat) ==
    LET type_name == findInFlat(flat, mapping.type_name)
        family_name == findInFlat(flat, mapping.family_name)
        omniclassTitle == findInFlat(flat, mapping.omniclass_title)
        component_type_raw ==
            OrElse(findInFlat(flat, mapping.component_type),
                   OrElse(inferCategory(type_name, family_name),
                          Str(<<"Unknown">>)))
    IN IF ~isEmpty(omniclassTitle) THEN Str(Trim(StrOf(omniclassTitle)))
       ELSE Str(Trim(StrOf(component_type_raw)))

\* the attribute columns of a row, computed from the flattened properties
groupsOf(flat) ==
    [c \in AllowedParams |-> findInFlat(flat, mapping[c])]

----------------------------------------------------------------------------
(* The elements table and the three ingest paths:                          *)
(* services/extract.js, services/snapshotIngest.js with public/snapshot.js *)
(* and scripts/migrate-to-sqlite.js                                        *)

Urns == {"U1", "U2"}
MaxRuns == 2

Prop(cat, name, v) == [cat |-> cat, name |-> name, v |-> v]

\* elements as the viewer / Model Derivative / bim-data.json deliver them;
\* ctype is the top-level component_type of a preprocessed element; an absent
\* displayCategory or displayName is the empty sequence
itDoor ==
    [dbId |-> 1, name |-> Str(<<"Door", WS, "D1">>), ctype |-> Null,
     properties |->
        << Prop(<<"Identity", WS, "Data">>, <<"Type", WS, "Name">>,
                Str(<<"Single", WS, "Door">>)),
           Prop(<<"Constraints">>, <<"Level">>, Str(<<"L1">>)),
           Prop(<<"Dimensions">>, <<"Area">>, Str(<<"2", WS, "sqm">>)) >>]
itWall ==
    [dbId |-> 2, name |-> Str(<<"Wall", WS, "W1">>), ctype |-> Null,
     properties |->
        << Prop(<<"Item">>, <<"Category">>, Str(<<"Revit", WS, "Walls">>)),
           Prop(<<"Constraints">>, <<"Level">>, Str(<<WS, "L1">>)) >>]
itBare ==
    [dbId |-> 3, name |-> Null, ctype |-> Null,
     properties |-> << Prop(<<>>, <<"Comment">>, Str(<<"x">>)) >>]
itPre ==
    [dbId |-> 4, name |-> Str(<<"Wall", WS, "W2">>),
     ctype |-> Str(<<"Walls">>),
     properties |-> << Prop(<<"Constraints">>, <<"Level">>, Str(<<"L2">>)) >>]

InputChoices ==
    { <<itDoor>>, <<itDoor, itWall>>, <<itWall, itBare>>, <<itPre, itDoor>> }

\* flattenProps of snapshotIngest.js and migrate-to-sqlite.js: an entry
\* without displayCategory or displayName is skipped
RECURSIVE flattenProps(_)
flattenProps(properties) ==
    IF properties = <<>> THEN <<>>
    ELSE LET p == Head(properties) IN
         IF p.cat = <<>> \/ p.name = <<>>
         THEN flattenProps(Tail(properties))
         ELSE <<[k |-> p.cat \o <<".">> \o p.name, v |-> p.v] >>
                  \o flattenProps(Tail(properties))

\* flattenProps of extract.js: properties is { group: { prop: value } }; a
\* group name or property name is never absent there
RECURSIVE flattenPropsNested(_)
flattenPropsNested(properties) ==
    IF properties = <<>> THEN <<>>
    ELSE LET p == Head(properties) IN
         <<[k |-> p.cat \o <<".">> \o p.name, v |-> p.v]>>
             \o flattenPropsNested(Tail(properties))

NewRow(urn, guid, it, ctype, flat, cols) ==
    [id |-> 0, urn |-> urn, guid |-> guid, dbId |-> it.dbId, name |-> it.name,
     component_type |-> ctype, cols |-> cols, props |-> flat,
     embedding |-> Null]

\* extract.js step 3: one doc per item
extractDoc(urn, guid, it) ==
    LET flat == flattenPropsNested(it.properties) IN
    NewRow(urn, guid, it, componentTypeOf(flat), flat, groupsOf(flat))

\* snapshotIngest.js transformSnapshotElement
transformSnapshotElement(it, urn, guid) ==
    LET flat == flattenProps(it.properties) IN
    NewRow(urn, guid, it, componentTypeOf(flat), flat, groupsOf(flat))

\* migrate-to-sqlite.js transformElement: a preprocessed element keeps its
\* component_type and its top-level attributes, of which it has none here
transformElement(it, urn, guid) ==
    LET flat == flattenProps(it.properties) IN
    IF ~IsNullish(it.ctype) /\ it.ctype.s # <<>>
    THEN NewRow(urn, guid, it, it.ctype, flat,
                [c \in AllowedParams |->
                    IF c \in {"type_name", "family_name", "omniclass_title"}
                    THEN Null ELSE findInFlat(flat, mapping[c])])
    ELSE NewRow(urn, guid, it, componentTypeOf(flat), flat, groupsOf(flat))

\* generateEmbeddingText: the parts that are present, joined.  extract.js
\* passes docs whose attributes are nested under basic/location/..., so only
\* element.name is found there; migrate passes flat rows.
embeddingTextNested(doc) == StrOf(doc.name)
embeddingTextFlat(row) == StrOf(row.name) \o StrOf(row.component_type)

\* generateEmbeddings for one text: none for an empty text
EmbeddingVectors == {<<1, 0>>, <<0, 1>>}
embedOne(text, vec) == IF Trim(text) = <<>> THEN Null ELSE [t |-> "vec", e |-> vec]

\* the outcomes of the embedding step: "fail" (the provider throws, or the
\* OPENAI key is missing) or the vector the provider returns
EmbedOutcomes ==
    {[ok |-> FALSE, vec |-> <<>>]}
        \cup {[ok |-> TRUE, vec |-> v] : v \in EmbeddingVectors}
EmbedFail == [ok |-> FALSE, vec |-> <<>>]

\* the rows are not in the table when the step ends
InsertLater(table, first, rows) == table

\* INSERT: AUTOINCREMENT ids in insertion order
InsertAll(table, first, rows) ==
    table \cup {[rows[i] EXCEPT !.id = first + i - 1] : i \in DOMAIN rows}

Partition(table, urn) == {r \in table : r.urn = urn}

\* a row without its id (what an ingest run decides)
Content(r) == [r EXCEPT !.id = 0]
Contents(rows) == {Content(r) : r \in rows}

IdleRun ==
    [path |-> "none", phase |-> "idle", urn |-> "", guid |-> "",
     input |-> <<>>, docs |-> <<>>, pos |-> 0, batchSize |-> 0,
     old |-> {}, firstId |-> 0]

DbEmpty == db = {} /\ nextId = 1
IngIdle == run = IdleRun /\ runsStarted = 0

\* extract.js step 6: DELETE FROM elements WHERE urn = ? AND guid = ?
deleteOldExtract(table, urn, guid) ==
    {r \in table : ~(r.urn = urn /\ r.guid = guid)}

\* POST /api/models/:urn/extract, up to await getMetadata(urn)
extractStart(urn) ==
    /\ run.phase = "idle" /\ runsStarted < MaxRuns
    /\ run' = [IdleRun EXCEPT !.path = "extract", !.phase = "metadata",
                              !.urn = urn, !.old = Contents(Partition(db, urn)),
                              !.firstId = nextId]
    /\ runsStarted' = runsStarted + 1
    /\ UNCHANGED <<config, fnVars, chatVars, gemVars, tokVars, dbVars>>

\* getMetadata resolves: pickFirstGuid; then await getProperties(urn, guid)
extractMetadata(ok, guid) ==
    /\ run.path = "extract" /\ run.phase = "metadata"
    /\ run' = IF ok THEN [run EXCEPT !.guid = guid, !.phase = "properties"]
              ELSE [run EXCEPT !.phase = "interrupted"]
    /\ UNCHANGED <<config, fnVars, chatVars, gemVars, tokVars, dbVars, runsStarted>>

\* getProperties resolves: an empty collection throws; docs are built and
\* generateEmbeddings is awaited
extractProperties(items) ==
    /\ run.path = "extract" /\ run.phase = "properties"
    /\ run' = IF items = <<>> THEN [run EXCEPT !.phase = "interrupted"]
              ELSE [run EXCEPT !.input = items, !.phase = "embeddings",
                      !.docs = [i \in DOMAIN items |->
                                   extractDoc(run.urn, run.guid, items[i])]]
    /\ UNCHANGED <<config, fnVars, chatVars, gemVars, tokVars, dbVars, runsStarted>>

\* generateEmbeddings settles (a failure gives no embeddings); then steps 5-7
\* run without an await: DELETE, then the insertMany transaction.  completed
\* is FALSE when the process dies, or the transaction rolls back, after the
\* DELETE.
extractWrite(e, completed) ==
    /\ run.path = "extract" /\ run.phase = "embeddings"
    /\ LET out == IF config.OPENAI_API_KEY THEN e ELSE EmbedFail
           docs == [i \in DOMAIN run.docs |->
                      [run.docs[i] EXCEPT !.embedding =
                          IF ~out.ok THEN Null
                          ELSE embedOne(embeddingTextNested(run.docs[i]), out.vec)]]
           kept == deleteOldExtract(db, run.urn, run.guid)
       IN IF completed
          THEN /\ db' = InsertAll(kept, nextId, docs)
               /\ nextId' = nextId + Len(docs)
               /\ run' = [run EXCEPT !.docs = docs, !.phase = "done"]
          ELSE /\ db' = kept
               /\ nextId' = nextId
               /\ run' = [run EXCEPT !.docs = docs, !.phase = "interrupted"]
    /\ UNCHANGED <<config, fnVars, chatVars, gemVars, tokVars, runsStarted>>

\* scripts/migrate-to-sqlite.js up to await generateEmbeddings
migrateStart(urn, guid, rawData) ==
    /\ run.phase = "idle" /\ runsStarted < MaxRuns
    /\ run' = [IdleRun EXCEPT !.path = "migrate", !.phase = "embeddings",
                  !.urn = urn, !.guid = guid, !.input = rawData,
                  !.old = Contents(Partition(db, urn)), !.firstId = nextId,
                  !.docs = [i \in DOMAIN rawData |->
                               transformElement(rawData[i], urn, guid)]]
    /\ runsStarted' = runsStarted + 1
    /\ UNCHANGED <<config, fnVars, chatVars, gemVars, tokVars, dbVars>>

\* migrate-to-sqlite.js steps 5-6: DELETE FROM elements WHERE urn = ?, then
\* the insertMany transaction
migrateWrite(e, completed) ==
    /\ run.path = "migrate" /\ run.phase = "embeddings"
    /\ LET out == IF config.OPENAI_API_KEY THEN e ELSE EmbedFail
           rows == [i \in DOMAIN run.docs |->
                      [run.docs[i] EXCEPT !.embedding =
                          IF ~out.ok THEN Null
                          ELSE embedOne(embeddingTextFlat(run.docs[i]), out.vec)]]
           kept == {r \in db : r.urn # run.urn}
       IN IF completed
          THEN /\ db' = InsertAll(kept, nextId, rows)
               /\ nextId' = nextId + Len(rows)
               /\ run' = [run EXCEPT !.docs = rows, !.phase = "done"]
          ELSE /\ db' = kept
               /\ nextId' = nextId
               /\ run' = [run EXCEPT !.docs = rows, !.phase = "interrupted"]
    /\ UNCHANGED <<config, fnVars, chatVars, gemVars, tokVars, runsStarted>>

\* batchSize option of snapshotToServer (200 by default)
BatchSizes == {1, 2}

\* snapshotToServer: POST snapshot/init -> initSnapshot
snapshotInit(urn, guid, elements, batchSize) ==
    /\ run.phase = "idle" /\ runsStarted < MaxRuns
    /\ db' = {r \in db : r.urn # urn}
    /\ run' = [IdleRun EXCEPT !.path = "snapshot", !.phase = "chunks",
                  !.urn = urn, !.guid = guid, !.input = elements,
                  !.batchSize = batchSize,
                  !.old = Contents(Partition(db, urn)), !.firstId = nextId,
                  !.docs = [i \in DOMAIN elements |->
                               transformSnapshotElement(elements[i], urn, guid)]]
    /\ runsStarted' = runsStarted + 1
    /\ UNCHANGED <<config, fnVars, chatVars, gemVars, tokVars, nextId>>

\* snapshotToServer loop: POST snapshot/chunk -> ingestSnapshotChunk inserts
\* the next batch in one transaction
ingestSnapshotChunk ==
    /\ run.path = "snapshot" /\ run.phase = "chunks"
    /\ run.pos < Len(run.input)
    /\ LET last == IF run.pos + run.batchSize < Len(run.input)
                   THEN run.pos + run.batchSize ELSE Len(run.input)
           rows == SubSeq(run.docs, run.pos + 1, last)
       IN /\ db' = InsertAll(db, nextId, rows)
          /\ nextId' = nextId + Len(rows)
          /\ run' = [run EXCEPT !.pos = last]
    /\ UNCHANGED <<config, fnVars, chatVars, gemVars, tokVars, runsStarted>>

\* snapshotToServer after the loop: POST snapshot/finish -> finishSnapshot
finishSnapshot ==
    /\ run.path = "snapshot" /\ run.phase = "chunks"
    /\ run.pos = Len(run.input)
    /\ run' = [run EXCEPT !.phase = "done"]
    /\ UNCHANGED <<config, fnVars, chatVars, gemVars, tokVars, dbVars, runsStarted>>

\* the browser tab closes, or a fetch fails, between two requests of
\* snapshotToServer
snapshotInterrupted ==
    /\ run.path = "snapshot" /\ run.phase = "chunks"
    /\ run' = [run EXCEPT !.phase = "interrupted"]
    /\ UNCHANGED <<config, fnVars, chatVars, gemVars, tokVars, dbVars, runsStarted>>

\* the run is over; another may start
runEnd ==
    /\ run.phase \in {"done", "interrupted"}
    /\ run' = IdleRun
    /\ UNCHANGED <<config, fnVars, chatVars, gemVars, tokVars, dbVars, runsStarted>>

----------------------------------------------------------------------------
(* services/aps.js: the two-legged token cache *)

Callers == {"c1", "c2"}
MaxProviderCalls == 3
MaxTicks == 2
SafetyMarginMs == 60000
DefaultExpiresIn == 3600
TickMs == SafetyMarginMs \div 2

\* scope arrays the callers pass: the default argument, the same scopes in
\* the other order, and getManifest's single scope
ScopeArgs ==
    { <<"data:read", "viewables:read">>, <<"viewables:read", "data:read">>,
      <<"viewables:read">> }

\* Array.prototype.sort() on scope names: lexicographic order
ScopeRank(x) ==
    CASE x = "bucket:read" -> 1 [] x = "data:read" -> 2
      [] x = "viewables:read" -> 3

RECURSIVE InsertScope(_, _)
InsertScope(x, s) ==
    IF s = <<>> THEN <<x>>
    ELSE IF ScopeRank(x) <= ScopeRank(Head(s)) THEN <<x>> \o s
    ELSE <<Head(s)>> \o InsertScope(x, Tail(s))

RECURSIVE SortScopes(_)
SortScopes(s) ==
    IF s = <<>> THEN <<>> ELSE InsertScope(Head(s), SortScopes(Tail(s)))

\* a key that keeps the caller's order
scopeKeyUnsorted(scopes) == scopes

\* (scopes || []).slice().sort().join(' '): the sorted names, blank-separated
scopeKey(scopes) == SortScopes(scopes)

\* a cache test that does not look at the scope key
tokenFreshAnyKey(cache, key, t) ==
    cache # Null /\ cache.expires_at_ms - t > SafetyMarginMs

\* _tokenCache && _tokenCache.scopeKey === key &&
\* _tokenCache.expires_at_ms - now > 60_000
tokenFresh(cache, key, t) ==
    /\ cache # Null /\ cache.scopeKey = key
    /\ cache.expires_at_ms - t > SafetyMarginMs

IdleCall ==
    [pc |-> "idle", scopes |-> <<>>, key |-> <<>>, now0 |-> 0, result |-> Null]

TokIdle ==
    /\ tokenCache = Null /\ now = 0 /\ tokProviderCalls = 0
    /\ calls = [c \in Callers |-> IdleCall]

\* what the token endpoint can answer: a failure, or a token with an
\* expires_in in seconds (0: the field is missing)
ExpiresInOpts == {0, 90}

\* getTwoLeggedToken up to its first await (or its synchronous end)
getTwoLeggedToken(c, scopes) ==
    /\ calls[c].pc = "idle"
    /\ LET started == [IdleCall EXCEPT !.scopes = scopes, !.now0 = now,
                                        !.key = scopeKey(scopes)]
       IN
       IF ~config.APS
       THEN \* assertApsConfig() throws
            /\ calls' = [calls EXCEPT ![c] =
                   [started EXCEPT !.pc = "done", !.result = [t |-> "throw"]]]
            /\ UNCHANGED <<tokenCache, tokProviderCalls>>
       ELSE IF tokenFresh(tokenCache, scopeKey(scopes), now)
       THEN /\ calls' = [calls EXCEPT ![c] =
                   [started EXCEPT !.pc = "done",
                       !.result = [t |-> "value", tok |-> tokenCache.access_token]]]
            /\ UNCHANGED <<tokenCache, tokProviderCalls>>
       ELSE /\ tokProviderCalls < MaxProviderCalls
            /\ tokProviderCalls' = tokProviderCalls + 1
            /\ calls' = [calls EXCEPT ![c] = [started EXCEPT !.pc = "await"]]
            /\ UNCHANGED tokenCache
    /\ UNCHANGED <<config, fnVars, chatVars, dbVars, ingVars, gemVars, now>>

\* axios.post to the token endpoint resolves: the rest of getTwoLeggedToken
tokenResponse(c, ok, expires_in) ==
    /\ calls[c].pc = "await"
    /\ IF ok
       THEN LET tok == [id |-> tokProviderCalls * 10 + ScopeRank(calls[c].scopes[1]),
                        scope |-> calls[c].scopes,
                        expires_in |-> expires_in]
                expiresIn == IF expires_in = 0 THEN DefaultExpiresIn
                             ELSE expires_in
            IN /\ tokenCache' =
                     [access_token |-> tok,
                      expires_at_ms |-> calls[c].now0 + expiresIn * 1000,
                      scopeKey |-> calls[c].key]
               /\ calls' = [calls EXCEPT ![c].pc = "done",
                               ![c].result = [t |-> "value", tok |-> tok]]
       ELSE /\ calls' = [calls EXCEPT ![c].pc = "done",
                               ![c].result = [t |-> "throw"]]
            /\ UNCHANGED tokenCache
    /\ UNCHANGED <<config, fnVars, chatVars, dbVars, ingVars, gemVars, now, tokProviderCalls>>

\* the caller uses the token; it may call again
tokenRelease(c) ==
    /\ calls[c].pc = "done"
    /\ calls' = [calls EXCEPT ![c] = IdleCall]
    /\ UNCHANGED <<config, fnVars, chatVars, dbVars, ingVars, gemVars, tokenCache, now, tokProviderCalls>>

\* Date.now() advances
tokenTick ==
    /\ now < MaxTicks * TickMs
    /\ now' = now + TickMs
    /\ UNCHANGED <<config, fnVars, chatVars, dbVars, ingVars, gemVars, tokenCache, calls, tokProviderCalls>>


----------------------------------------------------------------------------
(* services/gemini.js *)

\* the token FENCE stands for the three-backquote code fence
FENCE == "fence"
JSONTAG == "json"
\* provider texts: token sequences over WS, FENCE, JSONTAG and a body token
JsonDocs == {"{a:1}", "{b:2}"}
GARBAGE == "not json"

RECURSIVE SkipWs(_)
SkipWs(s) == IF s # <<>> /\ Head(s) = WS THEN SkipWs(Tail(s)) ELSE s

\* first replace of stripCodeFences: leading blanks, fence, optional "json"
StripOpenFence(s) ==
    LET a == SkipWs(s) IN
    IF a # <<>> /\ Head(a) = FENCE
    THEN LET b == Tail(a)
             c == IF b # <<>> /\ Head(b) = JSONTAG THEN Tail(b) ELSE b
         IN SkipWs(c)
    ELSE s

\* second replace of stripCodeFences: trailing blanks, fence, blanks
StripCloseFence(s) ==
    LET a == TrimRight(s) IN
    IF a # <<>> /\ a[Len(a)] = FENCE
    THEN TrimRight(SubSeq(a, 1, Len(a) - 1))
    ELSE s

stripCodeFences(s) ==
    IF s = <<>> THEN s ELSE Trim(StripCloseFence(StripOpenFence(s)))

\* JSON.parse succeeds exactly on a single JSON document
JsonParses(s) == Len(s) = 1 /\ s[1] \in JsonDocs
JsonParse(s) == s[1]

\* what one provider call (model.generateContent) can produce
ProviderTexts ==
    { <<"{a:1}">>, <<FENCE, JSONTAG, WS, "{b:2}", WS, FENCE>>,
      <<WS, FENCE, "{a:1}", FENCE, WS>>, <<GARBAGE>>,
      <<FENCE, JSONTAG, GARBAGE, FENCE>>, <<>> }
ProviderOutcomes ==
    {[ok |-> TRUE, text |-> t] : t \in ProviderTexts}
        \cup {[ok |-> FALSE, text |-> <<>>]}

MaxRetriesOpts == {Null, Num(0), Num(1), Num(3)}
DefaultMaxRetries == 2

GemIdle ==
    /\ gPc = "idle" /\ gMode = "none" /\ gMaxRetries = 0 /\ gI = 0
    /\ gLastErr = Null /\ gTextCalls = 0 /\ gProviderCalls = 0
    /\ gOutcomes = <<>> /\ gResult = Null

\* geminiJson(prompt, opts): const maxRetries = opts.maxRetries ?? 2; i = 0
geminiJsonCall(mr) ==
    /\ gPc = "idle"
    /\ gMode' = "json"
    /\ gMaxRetries' = IF IsNullish(mr) THEN DefaultMaxRetries ELSE mr.n
    /\ gI' = 0
    /\ gLastErr' = Null
    /\ gTextCalls' = 0 /\ gProviderCalls' = 0
    /\ gOutcomes' = <<>> /\ gResult' = Null
    /\ gPc' = "loop"
    /\ UNCHANGED <<config, fnVars, chatVars, dbVars, ingVars, tokVars>>

\* the error a failed attempt leaves in lastErr, tagged with the attempt
AttemptErr(kind, i) == [t |-> "err", kind |-> kind, attempt |-> i]

\* a wrong loop bound: one attempt too many
geminiJsonLoopCondOffByOne(i, maxRetries) == i <= maxRetries + 1

\* for (let i = 0; i <= maxRetries; i += 1)
geminiJsonLoopCond(i, maxRetries) == i <= maxRetries

\* loop head of geminiJson: either leave the loop and throw lastErr, or
\* call geminiText, whose getClient() throws when the key is missing
geminiJsonLoop ==
    /\ gPc = "loop" /\ gMode = "json"
    /\ IF geminiJsonLoopCond(gI, gMaxRetries)
       THEN /\ gTextCalls' = gTextCalls + 1
            /\ IF config.GEMINI_API_KEY
               THEN /\ gProviderCalls' = gProviderCalls + 1
                    /\ gPc' = "awaitText"
                    /\ UNCHANGED <<gI, gLastErr, gOutcomes, gResult>>
               ELSE /\ gLastErr' = AttemptErr("config", gI)
                    /\ gOutcomes' = Append(gOutcomes, AttemptErr("config", gI))
                    /\ gI' = gI + 1
                    /\ UNCHANGED <<gProviderCalls, gPc, gResult>>
       ELSE /\ gResult' = [t |-> "throw", err |-> gLastErr]
            /\ gPc' = "done"
            /\ UNCHANGED <<gI, gLastErr, gTextCalls, gProviderCalls, gOutcomes>>
    /\ UNCHANGED <<config, fnVars, chatVars, dbVars, ingVars, tokVars, gMode, gMaxRetries>>

\* the awaited geminiText settles inside geminiJson's try block
geminiJsonAttempt(o) ==
    /\ gPc = "awaitText" /\ gMode = "json"
    /\ LET cleaned == stripCodeFences(o.text) IN
       IF o.ok /\ JsonParses(cleaned)
       THEN /\ gResult' = [t |-> "value", v |-> JsonParse(cleaned)]
            /\ gOutcomes' = Append(gOutcomes, [t |-> "parsed", text |-> o.text])
            /\ gPc' = "done"
            /\ UNCHANGED <<gI, gLastErr>>
       ELSE /\ gLastErr' = AttemptErr(IF o.ok THEN "parse" ELSE "provider", gI)
            /\ gOutcomes' = Append(gOutcomes,
                   AttemptErr(IF o.ok THEN "parse" ELSE "provider", Len(gOutcomes)))
            /\ gI' = gI + 1
            /\ gPc' = "loop"
            /\ UNCHANGED gResult
    /\ UNCHANGED <<config, fnVars, chatVars, dbVars, ingVars, tokVars, gMode, gMaxRetries, gTextCalls,
                   gProviderCalls>>

\* geminiText(prompt, opts) called directly
geminiTextCall ==
    /\ gPc = "idle"
    /\ gMode' = "text"
    /\ gMaxRetries' = 0 /\ gI' = 0 /\ gLastErr' = Null
    /\ gTextCalls' = 1
    /\ gOutcomes' = <<>>
    /\ IF config.GEMINI_API_KEY
       THEN /\ gProviderCalls' = 1
            /\ gPc' = "awaitText"
            /\ gResult' = Null
       ELSE /\ gProviderCalls' = 0
            /\ gPc' = "done"
            /\ gResult' = [t |-> "throw", err |-> AttemptErr("config", 0)]
    /\ UNCHANGED <<config, fnVars, chatVars, dbVars, ingVars, tokVars>>

\* return result.response.text()
geminiTextReturn(o) ==
    /\ gPc = "awaitText" /\ gMode = "text"
    /\ gResult' = IF o.ok THEN [t |-> "value", v |-> o.text]
                  ELSE [t |-> "throw", err |-> AttemptErr("provider", 0)]
    /\ gOutcomes' = Append(gOutcomes, [t |-> "text", text |-> o.text])
    /\ gPc' = "done"
    /\ UNCHANGED <<config, fnVars, chatVars, dbVars, ingVars, tokVars, gMode, gMaxRetries, gI, gLastErr,
                   gTextCalls, gProviderCalls>>

\* the caller takes the result; the next call may start
gemReset ==
    /\ gPc = "done"
    /\ gPc' = "idle" /\ gMode' = "none" /\ gMaxRetries' = 0 /\ gI' = 0
    /\ gLastErr' = Null /\ gTextCalls' = 0 /\ gProviderCalls' = 0
    /\ gOutcomes' = <<>> /\ gResult' = Null
    /\ UNCHANGED <<config, fnVars, chatVars, dbVars, ingVars, tokVars>>


----------------------------------------------------------------------------
(* services/sqlite.js: cosineSimilarity and semanticSearch *)

RECURSIVE Dot(_, _)
Dot(a, b) ==
    IF a = <<>> THEN 0 ELSE Head(a) * Head(b) + Dot(Tail(a), Tail(b))

\* Math.sqrt on the magnitudes that occur: the vectors of the model have an
\* integer length
ISqrt(n) == CHOOSE r \in 0..n : r * r = n

\* a similarity is kept in hundredths, which is exact for the vectors of the
\* model (their lengths are 0, 1 and 5)
Hundredths == 100

cosineSimilarity(a, b) ==
    IF Len(a) # Len(b) THEN 0
    ELSE LET magnitude == ISqrt(Dot(a, a)) * ISqrt(Dot(b, b))
         IN IF magnitude = 0 THEN 0
            ELSE (Dot(a, b) * Hundredths) \div magnitude

\* the ids of the rows S as scores.sort((a, b) => b.score - a.score) leaves
\* them: highest score first, rows of equal score in the order of the SELECT
\* (the order of their ids)
\* the same rows in the order of their ids, whatever their scores
RECURSIVE SortById(_, _)
SortById(S, q) ==
    IF S = {} THEN <<>>
    ELSE LET first == CHOOSE r \in S : \A x \in S : r.id <= x.id
         IN <<first.id>> \o SortById(S \ {first}, q)

RECURSIVE SortByScore(_, _)
SortByScore(S, q) ==
    IF S = {} THEN <<>>
    ELSE LET score(r) == cosineSimilarity(q, r.embedding.e)
             best == CHOOSE r \in S : \A x \in S :
                        \/ score(r) > score(x)
                        \/ score(r) = score(x) /\ r.id <= x.id
         IN <<best.id>> \o SortByScore(S \ {best}, q)

\* slice(0, k)
Take(s, k) == SubSeq(s, 1, IF k < Len(s) THEN k ELSE Len(s))

semanticSearch(table, urn, queryEmbedding, k) ==
    LET rows == {r \in table : r.urn = urn /\ r.embedding # Null}
    IN IF rows = {} THEN <<>>
       ELSE Take(SortByScore(rows, queryEmbedding), k)

----------------------------------------------------------------------------
(* routes/chat.js: the chat pipeline *)

\* norm(s): String(s || "").trim(); the values normalised here are strings
\* or null
norm(v) == Str(IF IsStr(v) THEN Trim(v.s) ELSE <<>>)

\* stripEmpty(arr): (arr || []).map(norm).filter(Boolean); the order and the
\* repetitions of the array are not used by the pipeline
stripEmpty(S) == {norm(v) : v \in S} \ {Str(<<>>)}

\* the name a plan gives for a column
ParamName(v) == IF IsStr(v) /\ Len(v.s) = 1 THEN v.s[1] ELSE ""

\* the column c of a row of the elements table
Col(r, c) ==
    IF c \in AllowedParams THEN r.cols[c]
    ELSE IF c = "component_type" THEN r.component_type
    ELSE IF c = "name" THEN r.name
    ELSE IF c = "guid" THEN Str(<<r.guid>>)
    ELSE Null

\* c IS NOT NULL AND c != ''
NonEmptyCol(v) == v # Null /\ v # Str(<<>>)

getMeta(table, urn) ==
    LET part == Partition(table, urn) IN
    [categoryField |-> "component_type",
     categories |->
        stripEmpty({r.component_type :
                      r \in {x \in part : NonEmptyCol(x.component_type)}}),
     paramSamples |->
        [k \in AllowedParams |->
            stripEmpty({r.cols[k] :
                          r \in {x \in part : NonEmptyCol(x.cols[k])}})],
     areaKeys |->
        {p.k : p \in {y \in UNION {Range(r.props) : r \in part} :
                         "area" \in LowerWords(y.k)}}]

NoMeta ==
    [categoryField |-> "component_type", categories |-> {},
     paramSamples |-> [k \in AllowedParams |-> {}], areaKeys |-> {}]

\* what geminiJson gives for the hint prompt: it throws, or it returns the
\* parsed object
HintOutcomes ==
    {[ok |-> FALSE, category |-> Null, confidence |-> "high"]}
        \cup {[ok |-> TRUE, category |-> c, confidence |-> k] :
                 c \in {Null, Str(<<"Doors">>), Str(<<"Ghost">>)},
                 k \in {"high", "low"}}

\* detectHintCategory after the await
detectHintCategory(o) ==
    IF o.ok /\ Truthy(o.category) /\ o.confidence # "low"
    THEN o.category ELSE Null

\* what geminiJson gives for the intent prompt
Plan1Fail ==
    [ok |-> FALSE, intent |-> Null, category |-> Null, task |-> Null,
     limit |-> Null]
P1(intent, category, task) ==
    [ok |-> TRUE, intent |-> Str(<<intent>>), category |-> category,
     task |-> task, limit |-> Null]
Plan1Outcomes ==
    { Plan1Fail,
      P1("general", Null, Null),
      P1("bim", Str(<<"Doors">>), Str(<<"count">>)),
      P1("bim", Str(<<"Ghost">>), Str(<<"count">>)),
      P1("bim", Str(<<WS, "Doors">>), Null),
      P1("bim", Str(<<WS>>), Str(<<"list">>)),
      P1("bim", Null, Str(<<"count">>)),
      P1("bim", Null, Str(<<"distinct">>)),
      P1("bim", Str(<<"Doors">>), Str(<<"group_count">>)),
      P1("bim", Null, Str(<<"sum_area">>)),
      P1("bim", Null, Str(<<"list">>)) }

\* what geminiJson gives for the parameter prompt
Plan2Fail ==
    [ok |-> FALSE, filterParam |-> Null, filterValue |-> Null,
     targetParam |-> Null, propsFlatKey |-> Null,
     useSemanticSearch |-> Null, semanticQuery |-> Null, topK |-> Null,
     limit |-> Null]
P2 == [Plan2Fail EXCEPT !.ok = TRUE]
P2Level(v) ==
    [P2 EXCEPT !.filterParam = Str(<<"level_number">>), !.filterValue = v]
P2Semantic(q, k) ==
    [P2 EXCEPT !.useSemanticSearch = Bool(TRUE), !.semanticQuery = q,
               !.topK = k]
Plan2Outcomes ==
    { Plan2Fail,
      P2,
      P2Level(Str(<<"L1">>)),
      P2Level(Str(<<WS, "L1">>)),
      P2Level(Str(<<"L9">>)),
      P2Level(Null),
      [P2 EXCEPT !.filterParam = Str(<<"guid">>),
                 !.filterValue = Str(<<"default-guid">>),
                 !.targetParam = Str(<<"type_name">>)],
      [P2 EXCEPT !.targetParam = Str(<<"type_name">>)],
      [P2 EXCEPT !.targetParam = Str(<<"name">>)],
      [P2 EXCEPT !.targetParam = Str(<<"level_number">>)],
      [P2 EXCEPT !.targetParam = Str(<<"level_number">>), !.limit = Num(1)],
      [P2Level(Str(<<"L9">>)) EXCEPT !.targetParam = Str(<<"level_number">>)],
      [P2 EXCEPT !.propsFlatKey = Str(<<"Dimensions", ".", "Area">>)],
      [P2 EXCEPT !.propsFlatKey = Str(<<"Constraints", ".", "Level">>)],
      P2Semantic(Str(<<"door">>), Null),
      P2Semantic(Str(<<"door">>), Num(1)),
      P2Semantic(Str(<<WS>>), Null),
      P2Semantic(Null, Null),
      [P2Semantic(Str(<<"door">>), Null) EXCEPT
          !.filterParam = Str(<<"level_number">>),
          !.filterValue = Str(<<"L1">>)],
      [P2Semantic(Str(<<"door">>), Null) EXCEPT
          !.filterParam = Str(<<"level_number">>),
          !.filterValue = Str(<<"L9">>)] }

\* what geminiJson gives for the value prompt
ValueOutcomes ==
    {[ok |-> FALSE, value |-> Null]}
        \cup {[ok |-> TRUE, value |-> v] :
                 v \in {Null, Str(<<"L1">>), Str(<<WS, "L1">>),
                        Str(<<"L7">>)}}

\* geminiText resolves or throws
TextOutcomes == BOOLEAN

DefaultLimit == 20
DefaultTopK == 100

NoPlan ==
    [urn |-> "", intent |-> "", task |-> Null, category |-> Null,
     limit |-> Null, filterParam |-> Null, filterValue |-> Null,
     targetParam |-> Null, propsFlatKey |-> Null,
     useSemanticSearch |-> Null, semanticQuery |-> Null, topK |-> Null]

\* plan1.intent === "general"
isGeneralNever(plan1) == FALSE
isGeneral(plan1) == plan1.intent = Str(<<"general">>)

\* let category = plan1.category ? norm(plan1.category) : null;
\* if (!category && hintCategory && meta.categories.includes(hintCategory))
\*     category = hintCategory;
finalCategoryAnyHint(plan1, hintCategory, meta) ==
    LET category ==
            IF Truthy(plan1.category) THEN norm(plan1.category) ELSE Null
    IN IF ~Truthy(category) /\ Truthy(hintCategory)
       THEN hintCategory ELSE category
finalCategory(plan1, hintCategory, meta) ==
    LET category ==
            IF Truthy(plan1.category) THEN norm(plan1.category) ELSE Null
    IN IF ~Truthy(category) /\ Truthy(hintCategory)
          /\ hintCategory \in meta.categories
       THEN hintCategory ELSE category

\* the merged plan
mergePlan(urn, plan1, category, plan2) ==
    [urn |-> urn, intent |-> "bim",
     task |-> OrElse(plan1.task, Str(<<"count">>)),
     category |-> category,
     limit |-> OrElse(plan2.limit, OrElse(plan1.limit, Num(DefaultLimit))),
     filterParam |-> OrElse(plan2.filterParam, Null),
     filterValue |-> IF IsNullish(plan2.filterValue) THEN Null
                     ELSE plan2.filterValue,
     targetParam |-> OrElse(plan2.targetParam, Null),
     propsFlatKey |-> OrElse(plan2.propsFlatKey, Null),
     useSemanticSearch |-> OrElse(plan2.useSemanticSearch, Bool(FALSE)),
     semanticQuery |-> OrElse(plan2.semanticQuery, Null),
     topK |-> OrElse(plan2.topK, Num(DefaultTopK))]

\* allowedParams.has(p)
allowedAny(p) == TRUE
allowed(p) == ParamName(p) \in AllowedParams

\* if (plan.filterParam && !allowedParams.has(plan.filterParam)) ... = null
normalizeParams(plan) ==
    [plan EXCEPT
        !.filterParam = IF Truthy(@) /\ ~allowed(@) THEN Null ELSE @,
        !.targetParam = IF Truthy(@) /\ ~allowed(@) THEN Null ELSE @]

\* the candidates of the value step: SELECT DISTINCT p ... p IS NOT NULL AND
\* p != '', through stripEmpty
valueCandidates(table, urn, p) ==
    stripEmpty({Col(r, p) :
                  r \in {x \in Partition(table, urn) : NonEmptyCol(Col(x, p))}})

\* String(plan.filterValue).trim(), or '' for null
proposedValue(plan) ==
    IF IsNullish(plan.filterValue) THEN Str(<<>>)
    ELSE Str(Trim(StrOf(plan.filterValue)))

\* candidates.length && !exactHit && proposed
needsValuePrompt(plan, candidates) ==
    /\ candidates # {}
    /\ ~(Truthy(proposedValue(plan)) /\ proposedValue(plan) \in candidates)
    /\ Truthy(proposedValue(plan))

\* a value step that loses the proposed value
applyValueDropsFilter(plan, candidates, o) ==
    [plan EXCEPT !.filterValue = Null]

\* the value step after the await: vp.value replaces plan.filterValue when
\* its trimmed text is a candidate; a rejected geminiJson is caught
applyValue(plan, candidates, o) ==
    IF o.ok /\ ~IsNullish(o.value)
       /\ Str(Trim(StrOf(o.value))) \in candidates
    THEN [plan EXCEPT !.filterValue = o.value]
    ELSE plan

\* plan.useSemanticSearch && plan.semanticQuery
wantsSemantic(plan) ==
    Truthy(plan.useSemanticSearch) /\ Truthy(plan.semanticQuery)

\* the result of semantic retrieval: no list, or the array semanticSearch
\* returned
NoIds == [t |-> "null"]
Ids(a) == [t |-> "arr", a |-> a]

\* candidateIds && candidateIds.length > 0
useCandidateIdsNever(ids) == FALSE
useCandidateIds(ids) == ids # NoIds /\ Len(ids.a) > 0

\* runQuery: the WHERE clause
runQueryWhere(plan, ids) ==
    LET category ==
            IF Truthy(plan.category) THEN norm(plan.category) ELSE Null
        useFilter ==
            /\ Truthy(plan.filterParam)
            /\ ~IsNullish(plan.filterValue)
            /\ Trim(StrOf(plan.filterValue)) # <<>>
    IN [idIn |-> useCandidateIds(ids),
        ids |-> IF useCandidateIds(ids) THEN Range(ids.a) ELSE {},
        category |-> category,
        filter |-> useFilter,
        filterParam |-> IF useFilter THEN ParamName(plan.filterParam) ELSE "",
        filterValue |-> IF useFilter THEN plan.filterValue ELSE Null]

NoWhere ==
    [idIn |-> FALSE, ids |-> {}, category |-> Null, filter |-> FALSE,
     filterParam |-> "", filterValue |-> Null]

\* a row satisfies the WHERE clause
SatisfiesAnyUrn(r, urn, w) ==
    /\ w.idIn => r.id \in w.ids
    /\ Truthy(w.category) => r.component_type = w.category
    /\ w.filter => Col(r, w.filterParam) = w.filterValue
Satisfies(r, urn, w) ==
    /\ r.urn = urn
    /\ w.idIn => r.id \in w.ids
    /\ Truthy(w.category) => r.component_type = w.category
    /\ w.filter => Col(r, w.filterParam) = w.filterValue

\* the column names the WHERE clause interpolates
whereCols(w) ==
    (IF Truthy(w.category) THEN {"component_type"} ELSE {})
        \cup (IF w.filter THEN {w.filterParam} ELSE {})

\* json_extract(props_flat, '$.' + key): the dots of the path separate
\* object labels, and props_flat is one flat object of scalars
RECURSIVE FirstLabel(_)
FirstLabel(key) ==
    IF key = <<>> \/ Head(key) = "." THEN <<>>
    ELSE <<Head(key)>> \o FirstLabel(Tail(key))

JsonExtract(props, key) ==
    LET lab == FirstLabel(key)
        hits == {i \in DOMAIN props : props[i].k = lab}
    IN IF hits = {} \/ Len(lab) < Len(key) THEN Null
       ELSE props[CHOOSE i \in hits : TRUE].v

\* The text of an area value is a sequence of tokens: the digits, ".",
\* ",", "-", "+", WS and words without digits.  A number is kept in
\* hundredths.
Digits == {"0", "1", "2", "3", "4", "5", "6", "7", "8", "9"}
DigitValue(w) ==
    CASE w = "0" -> 0 [] w = "1" -> 1 [] w = "2" -> 2 [] w = "3" -> 3
      [] w = "4" -> 4 [] w = "5" -> 5 [] w = "6" -> 6 [] w = "7" -> 7
      [] w = "8" -> 8 [] w = "9" -> 9

\* \d+ : the longest run of digits at the head of s
RECURSIVE DigitRun(_)
DigitRun(s) ==
    IF s = <<>> \/ Head(s) \notin Digits THEN <<>>
    ELSE <<Head(s)>> \o DigitRun(Tail(s))

RECURSIVE DecimalValue(_, _)
DecimalValue(ds, acc) ==
    IF ds = <<>> THEN acc
    ELSE DecimalValue(Tail(ds), 10 * acc + DigitValue(Head(ds)))

\* parseFloat(match[0].replace(",", ".")) for \d+(?:[.,]\d+)? at the head
\* of s, of which two decimals are kept
NumberAt(s) ==
    LET int == DigitRun(s)
        rest == SubSeq(s, Len(int) + 1, Len(s))
        frac == IF Len(rest) >= 2 /\ rest[1] \in {".", ","}
                      /\ rest[2] \in Digits
                THEN DigitRun(Tail(rest)) ELSE <<>>
        tenths == IF Len(frac) >= 1 THEN DigitValue(frac[1]) ELSE 0
        hundredths == IF Len(frac) >= 2 THEN DigitValue(frac[2]) ELSE 0
    IN 100 * DecimalValue(int, 0) + 10 * tenths + hundredths

NoMatch == [found |-> FALSE, value |-> 0]

\* String.prototype.match(/[-+]?\d+(?:[.,]\d+)?/): the leftmost match
RECURSIVE FirstNumber(_)
FirstNumber(s) ==
    IF s = <<>> THEN NoMatch
    ELSE IF Head(s) \in Digits
         THEN [found |-> TRUE, value |-> NumberAt(s)]
    ELSE IF Head(s) \in {"-", "+"} /\ Len(s) >= 2 /\ s[2] \in Digits
         THEN [found |-> TRUE,
               value |-> IF Head(s) = "-" THEN 0 - NumberAt(Tail(s))
                         ELSE NumberAt(Tail(s))]
    ELSE FirstNumber(Tail(s))

\* the number the loop adds for one area_raw, or 0 when the row is skipped
\* (a falsy area_raw, no match, or a number that is 0)
areaNum(v) ==
    IF ~Truthy(v) THEN 0
    ELSE IF v.t = "num" THEN 100 * v.n
    ELSE IF IsStr(v) THEN FirstNumber(v.s).value
    ELSE 0

RECURSIVE SumArea(_, _)
SumArea(S, key) ==
    IF S = {} THEN 0
    ELSE LET r == CHOOSE x \in S : TRUE
         IN areaNum(JsonExtract(r.props, key)) + SumArea(S \ {r}, key)

NoResult ==
    [ok |-> TRUE, kind |-> "none", where |-> NoWhere, matched |-> {},
     cols |-> {}, count |-> 0, values |-> {}, groups |-> {},
     list |-> <<>>, total_area |-> 0, n |-> 0, docs |-> {}]

\* const limit = Number.isFinite(plan.limit) ? plan.limit : 20
limitOf(plan) == IF plan.limit.t = "num" THEN plan.limit.n ELSE DefaultLimit

\* SELECT DISTINCT field ... : the values of the rows, each once, in the
\* order of the rows
RECURSIVE DistinctInOrder(_, _, _)
DistinctInOrder(S, field, seen) ==
    IF S = {} THEN <<>>
    ELSE LET r == CHOOSE x \in S : \A y \in S : x.id <= y.id
             v == Col(r, field)
         IN IF v \in seen THEN DistinctInOrder(S \ {r}, field, seen)
            ELSE <<v>> \o DistinctInOrder(S \ {r}, field, seen \cup {v})

\* ... LIMIT ?, then rows.map((r) => norm(r[field])).filter(Boolean)
distinctValues(rows, field, limit) ==
    LET raw == Take(DistinctInOrder(rows, field, {}), limit)
    IN SelectSeq([i \in DOMAIN raw |-> norm(raw[i])],
                 LAMBDA v : v # Str(<<>>))

\* if (!field) throw new Error("... requires targetParam"), and the same
\* for propsFlatKey
missingNever(field) == FALSE
missing(field) == ~Truthy(field)

\* runQuery after semantic retrieval.  The LIMIT (20 when the plans give
\* none) exceeds the number of rows of a partition, so it removes nothing.
runQuery(table, plan, ids) ==
    LET w == runQueryWhere(plan, ids)
        rows == {r \in table : Satisfies(r, plan.urn, w)}
        field == ParamName(plan.targetParam)
        limit == limitOf(plan)
        withField == {r \in rows : Col(r, field) # Null}
        base == [NoResult EXCEPT !.where = w, !.cols = whereCols(w)]
        throws == [base EXCEPT !.ok = FALSE, !.kind = "error"]
    IN CASE plan.task = Str(<<"count">>) ->
              [base EXCEPT !.kind = "count", !.matched = {r.id : r \in rows},
                           !.count = Cardinality(rows)]
         [] plan.task = Str(<<"distinct">>) ->
              IF missing(plan.targetParam) THEN throws
              ELSE [base EXCEPT !.kind = "distinct",
                       !.cols = @ \cup {field},
                       !.matched = {r.id : r \in withField},
                       !.list = distinctValues(withField, field, limit),
                       !.values =
                           Range(distinctValues(withField, field, limit))]
         [] plan.task = Str(<<"group_count">>) ->
              IF missing(plan.targetParam) THEN throws
              ELSE [base EXCEPT !.kind = "group_count",
                       !.cols = @ \cup {field},
                       !.matched = {r.id : r \in withField},
                       !.groups =
                           {[value |-> v,
                             count |-> Cardinality(
                                 {r \in withField : Col(r, field) = v})] :
                               v \in {Col(r, field) : r \in withField}}]
         [] plan.task = Str(<<"sum_area">>) ->
              IF missing(plan.propsFlatKey) THEN throws
              ELSE [base EXCEPT !.kind = "sum_area",
                       !.matched = {r.id : r \in rows},
                       !.total_area = SumArea(rows, plan.propsFlatKey.s),
                       !.n = Cardinality(
                           {r \in rows :
                              areaNum(JsonExtract(r.props,
                                                  plan.propsFlatKey.s)) # 0})]
         [] OTHER ->
              [base EXCEPT !.kind = "list", !.matched = {r.id : r \in rows},
                           !.docs = {r.id : r \in rows}]

\* a response: its status, and whether its body carries an answer and the
\* hits of a query
NoResponse == [status |-> 0, kind |-> "none", answer |-> FALSE, hits |-> FALSE]
BadRequest ==
    [status |-> 400, kind |-> "error", answer |-> FALSE, hits |-> FALSE]
ErrorResponse ==
    [status |-> 500, kind |-> "error", answer |-> FALSE, hits |-> FALSE]
\* res.json({ answer, ... }) of the general branch
AnswerResponse ==
    [status |-> 200, kind |-> "answer", answer |-> TRUE, hits |-> FALSE]
\* res.json({ answer, hits, ... })
QueryResponse ==
    [status |-> 200, kind |-> "answer", answer |-> TRUE, hits |-> TRUE]

\* the steps of the pipeline a request has gone through, the reads of the
\* elements table it has made, the column names it has interpolated into
\* SQL text and the awaited calls that were rejected are recorded with the
\* request
IdleChat ==
    [pc |-> "idle", body |-> [urn |-> "", question |-> FALSE],
     urn |-> "", meta |-> NoMeta, hintCategory |-> Null,
     plan1 |-> Plan1Fail, plan2 |-> Plan2Fail, plan |-> NoPlan,
     candidates |-> {}, candidateIds |-> NoIds, result |-> NoResult,
     steps |-> {}, log |-> <<>>, reads |-> {}, readsAtIntent |-> {}, sqlCols |-> {},
     failedCalls |-> {}, response |-> NoResponse]

ChatIdle == chat = IdleChat

\* next(err): the error handler of server.js answers
chatError(c) == [c EXCEPT !.pc = "done", !.response = ErrorResponse]

\* geminiJson and geminiText throw without GEMINI_API_KEY
geminiAvailable == config.GEMINI_API_KEY

\* the awaited call of stage s settled; a rejection is recorded
settled(c, s, ok) ==
    IF ok THEN c ELSE [c EXCEPT !.failedCalls = @ \cup {s}]

\* the catch around await geminiJson(parameterPrompt) is the route's
paramsFailedNever(o) == FALSE
paramsFailed(o) == ~o.ok

\* runQuery from "Build WHERE clause" to its return, then the answer prompt
runQueryFinish(c, ids) ==
    LET q == runQuery(db, c.plan, ids)
        c1 == [c EXCEPT !.candidateIds = ids, !.result = q,
                        !.sqlCols = @ \cup q.cols]
    IN IF q.ok
       THEN [c1 EXCEPT !.pc = "answer", !.steps = @ \cup {"query"}, !.log = Append(@, "query"),
                       !.reads = @ \cup {"query"}]
       ELSE chatError(c1)

\* runQuery's catch around semantic retrieval: the error is logged and the
\* query is built without a candidate list
semanticRethrow(c) == chatError(settled(c, "embed", FALSE))
semanticCatch(c) == runQueryFinish(settled(c, "embed", FALSE), NoIds)

\* runQuery up to await generateEmbedding, which returns null for a blank
\* text without calling the provider
runQueryStart(c0) ==
    LET c == [c0 EXCEPT !.steps = @ \cup {"runQuery"}, !.log = Append(@, "runQuery")] IN
    IF wantsSemantic(c.plan) /\ Trim(StrOf(c.plan.semanticQuery)) # <<>>
    THEN [c EXCEPT !.pc = "embed"]
    ELSE runQueryFinish(c, NoIds)

\* the value step up to await geminiJson(valuePrompt)
valueStep(c) ==
    IF ~Truthy(c.plan.filterParam) THEN runQueryStart(c)
    ELSE LET p == ParamName(c.plan.filterParam)
             c1 == [c EXCEPT !.candidates = valueCandidates(db, c.urn, p),
                             !.steps = @ \cup {"candidates"}, !.log = Append(@, "candidates"),
                             !.reads = @ \cup {"candidates"},
                             !.sqlCols = @ \cup {p}]
         IN IF needsValuePrompt(c1.plan, c1.candidates)
            THEN [c1 EXCEPT !.pc = "value"]
            ELSE runQueryStart(c1)

\* if (!urn) return res.status(400)...; if (!question) return ...
invalidBodyUrnOnly(urn, hasQuestion) == urn = ""
invalidBody(urn, hasQuestion) == urn = "" \/ ~hasQuestion

\* router.post('/') up to the first geminiJson: the checks of the body,
\* getMeta, and detectHintCategory up to its await
chatPost(urn, hasQuestion) ==
    /\ chat.pc = "idle"
    /\ chat' =
         IF invalidBody(urn, hasQuestion)
         THEN [IdleChat EXCEPT
                 !.body = [urn |-> urn, question |-> hasQuestion],
                 !.pc = "done", !.response = BadRequest]
         ELSE LET meta == getMeta(db, urn)
                  c == [IdleChat EXCEPT
                          !.body = [urn |-> urn, question |-> hasQuestion],
                          !.urn = urn, !.meta = meta,
                          !.steps = {"getMeta"}, !.log = <<"getMeta">>,
                          !.reads = {"categories", "paramSamples", "props_flat"},
                          !.sqlCols = AllowedParams]
              IN IF meta.categories = {} THEN [c EXCEPT !.pc = "intent"]
                 ELSE [c EXCEPT !.pc = "hint"]
    /\ UNCHANGED <<config, fnVars, gemVars, tokVars, dbVars, ingVars>>

\* detectHintCategory after await geminiJson; a rejection is caught
chatHint(o) ==
    /\ chat.pc = "hint"
    /\ chat' = [settled(chat, "hint", geminiAvailable /\ o.ok) EXCEPT
                  !.pc = "intent", !.steps = @ \cup {"hint"}, !.log = Append(@, "hint"),
                  !.hintCategory =
                      IF geminiAvailable THEN detectHintCategory(o) ELSE Null]
    /\ UNCHANGED <<config, fnVars, gemVars, tokVars, dbVars, ingVars>>

\* await geminiJson(intentPrompt) settles: rejection, the general branch,
\* or the category of the plan
chatIntent(o) ==
    /\ chat.pc = "intent"
    /\ chat' =
         IF ~geminiAvailable \/ ~o.ok
         THEN chatError(settled(chat, "intent", FALSE))
         ELSE LET c == [chat EXCEPT !.plan1 = o, !.steps = @ \cup {"intent"}, !.log = Append(@, "intent"),
                                    !.readsAtIntent = chat.reads]
              IN IF isGeneral(o) THEN [c EXCEPT !.pc = "general"]
                 ELSE [c EXCEPT
                         !.pc = "params",
                         !.plan = [NoPlan EXCEPT !.category =
                             finalCategory(o, chat.hintCategory, chat.meta)]]
    /\ UNCHANGED <<config, fnVars, gemVars, tokVars, dbVars, ingVars>>

\* await geminiText(generalPrompt) settles
chatGeneral(ok) ==
    /\ chat.pc = "general"
    /\ chat' = IF ok
               THEN [chat EXCEPT !.pc = "done", !.steps = @ \cup {"general"}, !.log = Append(@, "general"),
                                 !.response = AnswerResponse]
               ELSE chatError([settled(chat, "general", FALSE)
                                  EXCEPT !.steps = @ \cup {"general"}, !.log = Append(@, "general")])
    /\ UNCHANGED <<config, fnVars, gemVars, tokVars, dbVars, ingVars>>

\* await geminiJson(parameterPrompt) settles: the merged plan, the
\* allow-list, and the pipeline up to its next await
chatParams(o) ==
    /\ chat.pc = "params"
    /\ chat' =
         IF paramsFailed(o) THEN chatError(settled(chat, "params", o.ok))
         ELSE valueStep(
                [settled(chat, "params", o.ok) EXCEPT
                   !.plan2 = o, !.steps = @ \cup {"params"}, !.log = Append(@, "params"),
                   !.plan = normalizeParams(
                       mergePlan(chat.urn, chat.plan1, chat.plan.category, o))])
    /\ UNCHANGED <<config, fnVars, gemVars, tokVars, dbVars, ingVars>>

\* await geminiJson(valuePrompt) settles; then runQuery
chatValue(o) ==
    /\ chat.pc = "value"
    /\ chat' = runQueryStart(
                 [settled(chat, "value", o.ok) EXCEPT
                    !.steps = @ \cup {"value"}, !.log = Append(@, "value"),
                    !.plan = applyValue(chat.plan, chat.candidates, o)])
    /\ UNCHANGED <<config, fnVars, gemVars, tokVars, dbVars, ingVars>>

\* await generateEmbedding settles: a rejection (or a missing OPENAI key) is
\* caught and leaves no candidate list; otherwise semanticSearch
chatEmbed(e) ==
    /\ chat.pc = "embed"
    /\ LET out == IF config.OPENAI_API_KEY THEN e ELSE EmbedFail IN
       chat' =
         IF out.ok
         THEN runQueryFinish(
                [chat EXCEPT !.steps = @ \cup {"semanticSearch"}, !.log = Append(@, "semanticSearch"),
                             !.reads = @ \cup {"embeddings"}],
                Ids(semanticSearch(db, chat.urn, out.vec, chat.plan.topK.n)))
         ELSE semanticCatch(chat)
    /\ UNCHANGED <<config, fnVars, gemVars, tokVars, dbVars, ingVars>>

\* res.json({ answer, hits, ... }): the response is sent and the handler
\* returns
answeredNotSent(c) == [c EXCEPT !.pc = "answer"]
answered(c) == [c EXCEPT !.pc = "done", !.response = QueryResponse]

\* await geminiText(answerPrompt) settles
chatAnswer(ok) ==
    /\ chat.pc = "answer"
    /\ chat' = IF ok
               THEN answered([chat EXCEPT !.steps = @ \cup {"answer"},
                                            !.log = Append(@, "answer")])
               ELSE chatError([settled(chat, "answer", FALSE)
                                  EXCEPT !.steps = @ \cup {"answer"}, !.log = Append(@, "answer")])
    /\ UNCHANGED <<config, fnVars, gemVars, tokVars, dbVars, ingVars>>

\* the response is sent; the next request may come
chatEnd ==
    /\ chat.pc = "done"
    /\ chat' = IdleChat
    /\ UNCHANGED <<config, fnVars, gemVars, tokVars, dbVars, ingVars>>

\* a table as two completed ingest runs leave it: U1 from the migration
\* script with one embedding per row, U2 from a viewer snapshot, which
\* stores no embeddings; U3 has no rows
SampleDb ==
    LET vec(v) == [t |-> "vec", e |-> v]
        rowsU1 ==
            << [transformElement(itPre, "U1", "default-guid")
                   EXCEPT !.embedding = vec(<<1, 0>>)],
               [transformElement(itDoor, "U1", "default-guid")
                   EXCEPT !.embedding = vec(<<0, 1>>)] >>
        rowsU2 ==
            << transformSnapshotElement(itDoor, "U2", "viewer-snapshot"),
               transformSnapshotElement(itWall, "U2", "viewer-snapshot") >>
    IN InsertAll(InsertAll({}, 1, rowsU1), 1 + Len(rowsU1), rowsU2)

ChatUrns == {"", "U1", "U2", "U3"}

----------------------------------------------------------------------------
(* Calls of single functions of the services, on inputs drawn from bounded *)
(* sets                                                                    *)

NoCall == [fn |-> "none"]
FnIdle == call = NoCall

\* stored and query vectors: unit vectors, two vectors of length 5, the zero
\* vector
SearchVectors == {<<1, 0>>, <<0, 1>>, <<3, 4>>, <<4, 3>>, <<0, 0>>}
SearchEmbeddings == {Null} \cup {[t |-> "vec", e |-> v] : v \in SearchVectors}

\* a table with three rows in U1, each with or without a stored vector, and
\* one row with a vector in U2
SearchTables ==
    {InsertAll({}, 1,
        << [transformElement(itPre, "U1", "default-guid")
               EXCEPT !.embedding = e1],
           [transformElement(itDoor, "U1", "default-guid")
               EXCEPT !.embedding = e2],
           [transformElement(itDoor, "U2", "default-guid")
               EXCEPT !.embedding = [t |-> "vec", e |-> <<1, 0>>]],
           [transformElement(itWall, "U1", "default-guid")
               EXCEPT !.embedding = e3] >>) :
        e1 \in SearchEmbeddings,
        e2 \in {Null, [t |-> "vec", e |-> <<3, 4>>],
                      [t |-> "vec", e |-> <<4, 3>>]},
        e3 \in {Null, [t |-> "vec", e |-> <<3, 4>>],
                      [t |-> "vec", e |-> <<4, 3>>]}}

MaxK == 3

\* semanticSearch(db, urn, queryEmbedding, k); the functions keep no state
\* between calls, so a behaviour holds one call
semanticSearchCall(urn, q, k) ==
    /\ FnIdle
    /\ call' = [fn |-> "semanticSearch", urn |-> urn, q |-> q, k |-> k,
                out |-> semanticSearch(db, urn, q, k)]
    /\ UNCHANGED <<config, chatVars, gemVars, tokVars, dbVars, ingVars>>

\* ---- services/sqlite.js: cosineSimilarity in double arithmetic ----

\* Math.sqrt(n) is exact when n is a perfect square
SqrtExact(n) == \E r \in 0..n : r * r = n

\* m / (Math.sqrt(m) * Math.sqrt(m)) - 1 in units of 2^-53, as IEEE double
\* arithmetic gives it for the squared magnitudes of the model: the
\* product of the two rounded roots is not m when the root is not exact
SelfQuotientEps(m) ==
    CASE m = 2 -> 0 - 2 [] m = 3 -> 2 [] m = 5 -> 0 - 2 [] m = 13 -> 2
      [] OTHER -> 0

\* a double: hundredths / 100 + eps * 2^-53, or NaN
Exactly(h) == [hundredths |-> h, eps |-> 0, nan |-> FALSE]

\* cosineSimilarity(a, b) for equal vectors, vectors of magnitude 0, vectors
\* of different lengths and orthogonal vectors
cosineSimilarityNoZeroTest(a, b) ==
    IF Len(a) # Len(b) THEN Exactly(0)
    ELSE IF Dot(a, a) = 0 \/ Dot(b, b) = 0
    THEN [hundredths |-> 0, eps |-> 0, nan |-> TRUE]
    ELSE IF a = b
    THEN [hundredths |-> 100, eps |-> SelfQuotientEps(Dot(a, a)),
          nan |-> FALSE]
    ELSE Exactly(cosineSimilarity(a, b))
cosineSimilarityDouble(a, b) ==
    IF Len(a) # Len(b) THEN Exactly(0)
    ELSE IF Dot(a, a) = 0 \/ Dot(b, b) = 0 THEN Exactly(0)
    ELSE IF a = b
    THEN [hundredths |-> 100, eps |-> SelfQuotientEps(Dot(a, a)),
          nan |-> FALSE]
    ELSE Exactly(cosineSimilarity(a, b))

CosineVectors ==
    {<<>>, <<0, 0>>, <<1, 0>>, <<0, 1>>, <<3, 4>>, <<1, 1>>, <<1, 2>>,
     <<2, 3>>, <<0, 0, 0>>, <<1, 1, 1>>}
CosinePairs ==
    {p \in CosineVectors \X CosineVectors :
        \/ Len(p[1]) # Len(p[2]) \/ p[1] = p[2]
        \/ Dot(p[1], p[1]) = 0 \/ Dot(p[2], p[2]) = 0
        \/ /\ SqrtExact(Dot(p[1], p[1])) /\ SqrtExact(Dot(p[2], p[2]))
           /\ Dot(p[1], p[2]) = 0}

cosineSimilarityCall(a, b) ==
    /\ FnIdle
    /\ call' = [fn |-> "cosineSimilarity", a |-> a, b |-> b,
                out |-> cosineSimilarityDouble(a, b)]
    /\ UNCHANGED <<config, chatVars, gemVars, tokVars, dbVars, ingVars>>

\* ---- routes/bim.js ----

\* getCategoryField(mode): String(mode || 'type').toLowerCase().trim()
getCategoryField(mode) ==
    LET m == Trim([i \in DOMAIN mode |-> Lower(mode[i])])
    IN IF m = <<"omniclass">> \/ m = <<"omni">> THEN "omniclass_title"
       ELSE "component_type"

\* the columns of the elements table a query can name without an error
TableColumns ==
    AllowedParams \cup {"component_type", "name", "guid"}

\* query strings of a request: mode, param, q
BimModes == {<<>>, <<"type">>, <<"omniclass">>, <<"OMNI", WS>>, <<"x">>}
BimParams == {"", "type_name", "level_number", "guid", "name, urn"}
BimQueries == {<<>>, <<"L1">>, <<"Door">>}
BimCategories == {Null, Str(<<"Doors">>), Str(<<"Walls">>)}

\* sqlCols: the names interpolated into the SQL text; sqlParams: the values
\* bound to its placeholders
BimResponse(fn, status, sqlCols, sqlParams, values) ==
    [fn |-> fn, status |-> status, sqlCols |-> sqlCols,
     sqlParams |-> sqlParams, values |-> values]

\* GET /api/bim/categories
bimCategories(urn, mode) ==
    /\ FnIdle
    /\ call' =
         IF urn = "" THEN BimResponse("bim/categories", 400, {}, <<>>, {})
         ELSE LET categoryField == getCategoryField(mode)
              IN BimResponse("bim/categories", 200, {categoryField}, <<urn>>,
                     {Col(r, categoryField) : r \in Partition(db, urn)}
                         \ {Null, Str(<<>>)})
    /\ UNCHANGED <<config, chatVars, gemVars, tokVars, dbVars, ingVars>>

\* GET /api/bim/distinct: param is interpolated as the request gives it; a
\* name that is not a column makes prepare throw
bimDistinct(urn, category, param, q, mode) ==
    /\ FnIdle
    /\ call' =
         IF urn = "" \/ ~Truthy(category) \/ param = ""
         THEN BimResponse("bim/distinct", 400, {}, <<>>, {})
         ELSE LET categoryField == getCategoryField(mode)
                  rows == {r \in Partition(db, urn) :
                             /\ Col(r, categoryField) = category
                             /\ Col(r, param) # Null
                             /\ q # <<>> => Includes(StrOf(Col(r, param)), q)}
              IN IF param \notin TableColumns
                 THEN BimResponse("bim/distinct", 500,
                                  {param, categoryField}, <<>>, {})
                 ELSE BimResponse("bim/distinct", 200,
                                  {param, categoryField},
                                  <<urn, category.s, q>>,
                                  {Col(r, param) : r \in rows}
                                      \ {Str(<<>>)})
    /\ UNCHANGED <<config, chatVars, gemVars, tokVars, dbVars, ingVars>>

\* ---- services/embeddings.js: generateEmbeddings ----

\* text && typeof text === 'string' && text.trim() !== ''
validText(text) == IsStr(text) /\ Trim(text.s) # <<>>

\* validTexts (trimmed) and validIndexes, in the order of texts
validIndexes(texts) ==
    SelectSeq([i \in DOMAIN texts |-> i], LAMBDA i : validText(texts[i]))
validTexts(texts) ==
    LET idx == validIndexes(texts)
    IN [j \in DOMAIN idx |-> Trim(texts[idx[j]].s)]

\* Array.prototype.slice(from, to), from and to counted from 0
Slice(s, from, to) ==
    SubSeq(s, from + 1, IF to < Len(s) THEN to ELSE Len(s))

\* texts of one provider call (100 in the source; smaller here, so that a
\* few texts make several batches)
batchSize == 2

\* validIndexes.slice(i, i + batchSize)
batchIndexesFirst(indexes, i) == Slice(indexes, 0, batchSize)
batchIndexes(indexes, i) == Slice(indexes, i, i + batchSize)

\* the provider: response.data holds one item per input, in the order of
\* the inputs, and the vector depends on the text
ProviderEmbedding(text) ==
    CASE text = <<"a">> -> <<1, 0>>
      [] text = <<"b">> -> <<0, 1>>
      [] OTHER -> <<1, 1>>
ProviderData(batch) ==
    [j \in DOMAIN batch |-> [t |-> "vec", e |-> ProviderEmbedding(batch[j])]]

\* response.data.forEach((item, batchIdx) =>
\*     allEmbeddings[batchIndexes[batchIdx]] = item.embedding)
mapBack(allEmbeddings, indexes, data) ==
    [k \in DOMAIN allEmbeddings |->
        IF \E j \in DOMAIN data : j \in DOMAIN indexes /\ indexes[j] = k
        THEN data[CHOOSE j \in DOMAIN data :
                     /\ j \in DOMAIN indexes /\ indexes[j] = k
                     /\ \A j2 \in DOMAIN data :
                           (j2 \in DOMAIN indexes /\ indexes[j2] = k)
                               => j2 <= j]
        ELSE allEmbeddings[k]]

MaxTexts == 4
TextChoices ==
    {Str(<<"a">>), Str(<<WS, "b">>), Str(<<WS>>), Str(<<>>), Null}
TextLists == UNION {[1..n -> TextChoices] : n \in 0..MaxTexts}

IdleEmbeddings ==
    [fn |-> "generateEmbeddings", pc |-> "returned", texts |-> <<>>,
     validTexts |-> <<>>, validIndexes |-> <<>>, i |-> 0,
     allEmbeddings |-> <<>>, requests |-> <<>>, out |-> <<>>]

\* generateEmbeddings up to the first await
generateEmbeddingsCall(texts) ==
    /\ FnIdle
    /\ call' =
         LET c == [IdleEmbeddings EXCEPT !.texts = texts]
             nulls == [k \in DOMAIN texts |-> Null]
         IN IF texts = <<>> THEN c
            ELSE IF validTexts(texts) = <<>> THEN [c EXCEPT !.out = nulls]
            ELSE LET c1 == [c EXCEPT !.validTexts = validTexts(texts),
                                     !.validIndexes = validIndexes(texts),
                                     !.allEmbeddings = nulls]
                 IN IF ~config.OPENAI_API_KEY THEN [c1 EXCEPT !.pc = "thrown"]
                    ELSE [c1 EXCEPT !.pc = "create"]
    /\ UNCHANGED <<config, chatVars, gemVars, tokVars, dbVars, ingVars>>

\* await client.embeddings.create({ input: batch }) settles, and the loop
\* goes to the next batch or the function returns
embeddingsCreate(ok) ==
    /\ call.fn = "generateEmbeddings" /\ call.pc = "create"
    /\ call' =
         LET batch == Slice(call.validTexts, call.i, call.i + batchSize)
             indexes == batchIndexes(call.validIndexes, call.i)
             all == mapBack(call.allEmbeddings, indexes, ProviderData(batch))
             c == [call EXCEPT !.requests = Append(@, batch)]
         IN IF ~ok THEN [c EXCEPT !.pc = "thrown"]
            ELSE IF call.i + batchSize < Len(call.validTexts)
            THEN [c EXCEPT !.allEmbeddings = all, !.i = @ + batchSize]
            ELSE [c EXCEPT !.allEmbeddings = all, !.i = @ + batchSize,
                           !.pc = "returned", !.out = all]
    /\ UNCHANGED <<config, chatVars, gemVars, tokVars, dbVars, ingVars>>

\* ---- routes/chat.js: detectHintCategory as a function of its own ----

\* questions, as sequences of words: "cua so" is a window, "cua" a door,
\* "tuong" a wall
Questions ==
    {<<>>, <<"cua", WS, "so">>, <<"cua">>, <<"tuong">>}
CategoryLists ==
    {{}, {Str(<<"Doors">>)}, {Str(<<"Doors">>), Str(<<"Windows">>)},
     {Str(<<"Walls">>)}}

\* detectHintCategory up to await geminiJson(prompt)
detectHintCategoryCall(question, availableCategories) ==
    /\ FnIdle
    /\ call' =
         LET c == [fn |-> "detectHintCategory", question |-> question,
                   availableCategories |-> availableCategories,
                   pc |-> "returned", inferenceCalls |-> 0, out |-> Null]
         IN IF question = <<>> \/ availableCategories = {} THEN c
            ELSE [c EXCEPT !.pc = "geminiJson", !.inferenceCalls = 1]
    /\ UNCHANGED <<config, chatVars, gemVars, tokVars, dbVars, ingVars>>

\* await geminiJson(prompt) settles; a rejection is caught
detectHintCategoryReturn(o) ==
    /\ call.fn = "detectHintCategory" /\ call.pc = "geminiJson"
    /\ call' = [call EXCEPT
                  !.pc = "returned",
                  !.out = IF geminiAvailable THEN detectHintCategory(o)
                          ELSE Null]
    /\ UNCHANGED <<config, chatVars, gemVars, tokVars, dbVars, ingVars>>

----------------------------------------------------------------------------
(* Specifications: one per subsystem; the other subsystems stay idle *)

InitGemini ==
    /\ config \in {k \in ConfigChoices : k.APS /\ k.OPENAI_API_KEY}
    /\ GemIdle /\ TokIdle /\ DbEmpty /\ IngIdle /\ ChatIdle /\ FnIdle

NextGemini ==
    \/ \E mr \in MaxRetriesOpts : geminiJsonCall(mr)
    \/ geminiJsonLoop
    \/ \E o \in ProviderOutcomes : geminiJsonAttempt(o)
    \/ geminiTextCall
    \/ \E o \in ProviderOutcomes : geminiTextReturn(o)
    \/ gemReset

SpecGemini == InitGemini /\ [][NextGemini]_vars

InitToken ==
    /\ config \in {k \in ConfigChoices : k.GEMINI_API_KEY /\ k.OPENAI_API_KEY}
    /\ GemIdle /\ TokIdle /\ DbEmpty /\ IngIdle /\ ChatIdle /\ FnIdle

NextToken ==
    \/ \E c \in Callers, sc \in ScopeArgs : getTwoLeggedToken(c, sc)
    \/ \E c \in Callers, e \in ExpiresInOpts : tokenResponse(c, TRUE, e)
    \/ \E c \in Callers : tokenResponse(c, FALSE, 0)
    \/ \E c \in Callers : tokenRelease(c)
    \/ tokenTick

SpecToken == InitToken /\ [][NextToken]_vars

InitIngest ==
    /\ config \in {k \in ConfigChoices : k.GEMINI_API_KEY /\ k.APS}
    /\ GemIdle /\ TokIdle /\ DbEmpty /\ IngIdle /\ ChatIdle /\ FnIdle

NextIngest ==
    \/ \E u \in Urns : extractStart(u)
    \/ \E g \in {"g1", "g2"} : extractMetadata(TRUE, g)
    \/ extractMetadata(FALSE, "")
    \/ \E items \in InputChoices \cup {<<>>} : extractProperties(items)
    \/ \E e \in EmbedOutcomes, completed \in BOOLEAN : extractWrite(e, completed)
    \/ \E u \in Urns, raw \in InputChoices :
           migrateStart(u, "default-guid", raw)
    \/ \E e \in EmbedOutcomes, completed \in BOOLEAN : migrateWrite(e, completed)
    \/ \E u \in Urns, els \in InputChoices, b \in BatchSizes :
           snapshotInit(u, "viewer-snapshot", els, b)
    \/ ingestSnapshotChunk
    \/ finishSnapshot
    \/ snapshotInterrupted
    \/ runEnd

SpecIngest == InitIngest /\ [][NextIngest]_vars

InitChat ==
    /\ config \in {k \in ConfigChoices : k.APS}
    /\ GemIdle /\ TokIdle /\ IngIdle /\ ChatIdle /\ FnIdle
    /\ db = SampleDb /\ nextId = Cardinality(SampleDb) + 1

NextChat ==
    \/ \E u \in ChatUrns, q \in BOOLEAN : chatPost(u, q)
    \/ \E o \in HintOutcomes : chatHint(o)
    \/ \E o \in Plan1Outcomes : chatIntent(o)
    \/ \E ok \in TextOutcomes : chatGeneral(ok)
    \/ \E o \in Plan2Outcomes : chatParams(o)
    \/ \E o \in ValueOutcomes : chatValue(o)
    \/ \E e \in EmbedOutcomes : chatEmbed(e)
    \/ \E ok \in TextOutcomes : chatAnswer(ok)
    \/ chatEnd

SpecChat == InitChat /\ [][NextChat]_vars

InitFn ==
    /\ config \in {k \in ConfigChoices : k.APS /\ k.GEMINI_API_KEY}
    /\ GemIdle /\ TokIdle /\ IngIdle /\ ChatIdle /\ FnIdle
    /\ db \in SearchTables /\ nextId = 5

NextFn ==
    \/ \E u \in {"U1", "U2", "U3"}, q \in SearchVectors, k \in 0..MaxK :
           semanticSearchCall(u, q, k)
    \/ \E p \in CosinePairs : cosineSimilarityCall(p[1], p[2])

SpecFn == InitFn /\ [][NextFn]_vars

InitEmbeddings ==
    /\ config \in {k \in ConfigChoices : k.APS /\ k.GEMINI_API_KEY}
    /\ GemIdle /\ TokIdle /\ DbEmpty /\ IngIdle /\ ChatIdle /\ FnIdle

NextEmbeddings ==
    \/ \E texts \in TextLists : generateEmbeddingsCall(texts)
    \/ \E ok \in BOOLEAN : embeddingsCreate(ok)

SpecEmbeddings == InitEmbeddings /\ [][NextEmbeddings]_vars

InitHint ==
    /\ config \in {k \in ConfigChoices : k.APS}
    /\ GemIdle /\ TokIdle /\ DbEmpty /\ IngIdle /\ ChatIdle /\ FnIdle

NextHint ==
    \/ \E q \in Questions, cats \in CategoryLists :
           detectHintCategoryCall(q, cats)
    \/ \E o \in HintOutcomes : detectHintCategoryReturn(o)

SpecHint == InitHint /\ [][NextHint]_vars

InitBim ==
    /\ config \in {k \in ConfigChoices : k.APS}
    /\ GemIdle /\ TokIdle /\ IngIdle /\ ChatIdle /\ FnIdle
    /\ db = SampleDb /\ nextId = Cardinality(SampleDb) + 1

NextBim ==
    \/ \E u \in ChatUrns, m \in BimModes : bimCategories(u, m)
    \/ \E u \in ChatUrns, c \in BimCategories, p \in BimParams,
           q \in BimQueries, m \in BimModes : bimDistinct(u, c, p, q, m)

SpecBim == InitBim /\ [][NextBim]_vars

----------------------------------------------------------------------------
(* Claims about the chat pipeline *)

QueryDone == "query" \in chat.steps

\* C1: for every request that reaches Query Execution, the category of the
\* plan, and of the category-equality filter, is none or a member of the
\* category list getMeta computed in the same request.
C1_Original ==
    QueryDone =>
        /\ ~Truthy(chat.plan.category)
              \/ chat.plan.category \in chat.meta.categories
        /\ ~Truthy(chat.result.where.category)
              \/ chat.result.where.category \in chat.meta.categories

\* the distinct non-empty values stored for column p in the partition
LiveValues(urn, p) ==
    {Col(r, p) : r \in {x \in Partition(db, urn) : NonEmptyCol(Col(x, p))}}

\* C2: for every executed query, either no filter-attribute equality is
\* applied or the value bound to it is one of the distinct non-empty values
\* stored for that attribute in the requested partition.
C2_Original ==
    QueryDone =>
        \/ ~chat.result.where.filter
        \/ chat.result.where.filterValue
               \in LiveValues(chat.urn, chat.result.where.filterParam)

\* C3: whatever Parameter Inference returns, plan.filterParam and
\* plan.targetParam are none or allow-listed names before the candidate query
\* and before runQuery, so every column name interpolated into SQL text is an
\* allow-listed name or the category field.
C3_AllowListed ==
    /\ chat.sqlCols \subseteq AllowedParams \cup {"component_type"}
    /\ "params" \in chat.steps =>
          \A p \in {chat.plan.filterParam, chat.plan.targetParam} :
              p = Null \/ ParamName(p) \in AllowedParams

\* a query has run whose parameter step named a filter column outside the
\* allow-list together with an allow-listed target column, which the query
\* selected
C3_Witness ==
    /\ QueryDone
    /\ Truthy(chat.plan2.filterParam)
    /\ ParamName(chat.plan2.filterParam) \notin AllowedParams
    /\ chat.result.kind = "distinct"
    /\ ParamName(chat.plan.targetParam) \in chat.sqlCols

\* C4: after the value step, plan.filterValue is the value Parameter
\* Inference proposed or is exactly a member of the candidate list.
C4_Original ==
    ("candidates" \in chat.steps /\ chat.pc # "value") =>
        \/ chat.plan.filterValue = chat.plan2.filterValue
        \/ chat.plan.filterValue \in chat.candidates

SemanticSucceeded == QueryDone /\ chat.candidateIds # NoIds

\* C5 (as stated): when semantic retrieval was requested and succeeded, the
\* filter includes membership in the returned identifiers, so every row that
\* contributes to the result is in the list, and an empty list contributes
\* no rows.
C5_Original ==
    SemanticSucceeded =>
        /\ chat.result.where.idIn
        /\ chat.result.matched \subseteq Range(chat.candidateIds.a)

\* C5 (amended): the membership conjunct is applied exactly when the returned
\* list is not empty, and then every contributing row is in the list; an
\* empty list (a partition without stored embeddings) adds no conjunct.
C5_Amended ==
    SemanticSucceeded =>
        IF Len(chat.candidateIds.a) > 0
        THEN /\ chat.result.where.idIn
             /\ chat.result.where.ids = Range(chat.candidateIds.a)
             /\ chat.result.matched \subseteq Range(chat.candidateIds.a)
        ELSE ~chat.result.where.idIn

\* semantic retrieval returned fewer rows than the partition has, and the
\* query found a row
C5_Witness ==
    /\ SemanticSucceeded
    /\ Len(chat.candidateIds.a) = 1
    /\ Cardinality(Partition(db, chat.urn)) > 1
    /\ chat.result.matched # {}

ReportedGeneral == chat.plan1.intent = Str(<<"general">>)

\* the steps that follow Category Inference on the dataset branch
DatasetSteps ==
    {"params", "candidates", "value", "runQuery", "semanticSearch", "query"}

\* C6 (as stated): when Category Inference reports intent 'general', the
\* request gets a free-text answer, runs none of the later steps and makes
\* no read of the elements table.
C6_Original ==
    ReportedGeneral =>
        /\ chat.pc \in {"general", "done"}
        /\ chat.steps \cap DatasetSteps = {}
        /\ chat.reads = {}
        /\ chat.pc = "done" => chat.response = AnswerResponse

\* C6 (amended): when Category Inference reports intent 'general', the
\* request runs none of the later steps and reads the elements table no more
\* after that report: its only reads are those of getMeta, made before; it is
\* answered by geminiText's text, or by the error handler when that call
\* fails.
C6_Amended ==
    ReportedGeneral =>
        /\ chat.pc \in {"general", "done"}
        /\ chat.steps \cap DatasetSteps = {}
        /\ chat.reads = chat.readsAtIntent
        /\ chat.reads = {"categories", "paramSamples", "props_flat"}
        /\ chat.pc = "done" =>
              /\ "general" \in chat.steps
              /\ chat.response \in {AnswerResponse, ErrorResponse}

\* a request reported as general has been answered with free text
C6_Witness ==
    /\ ReportedGeneral
    /\ chat.pc = "done"
    /\ chat.response = AnswerResponse
    /\ chat.meta.categories # {}

\* the stages that come after stage s on the dataset branch and the general
\* branch
LaterStages(s) ==
    CASE s = "intent" ->
            {"general", "params", "candidates", "value", "runQuery",
             "semanticSearch", "query", "answer"}
      [] s = "params" ->
            {"candidates", "value", "runQuery", "semanticSearch", "query"}
      [] OTHER -> {}

\* C11: when the Category Inference call, the Parameter Inference call or the
\* Answer Synthesis call is rejected, the request ends with an error response
\* that carries no answer and no query result, and no later stage runs.
C11_FailureEndsRequest ==
    \A s \in {"intent", "params", "answer"} :
        s \in chat.failedCalls =>
            /\ chat.pc = "done"
            /\ chat.response.kind = "error"
            /\ ~chat.response.answer /\ ~chat.response.hits
            /\ chat.steps \cap LaterStages(s) = {}
            /\ s = "params" => "answer" \notin chat.steps

\* the parameter prompt was rejected after the hint and the intent prompts
\* had been answered, and the request has ended
C11_Witness ==
    /\ "params" \in chat.failedCalls
    /\ {"hint", "intent"} \subseteq chat.steps
    /\ chat.pc = "done"

\* semantic retrieval was requested and gave no candidate list: the embedding
\* call was rejected, or the query text was blank and no embedding was made
SemanticFailed ==
    /\ "runQuery" \in chat.steps /\ chat.pc # "embed"
    /\ wantsSemantic(chat.plan)
    /\ \/ "embed" \in chat.failedCalls
       \/ Trim(StrOf(chat.plan.semanticQuery)) = <<>>

\* C12 (as stated): when semantic retrieval fails, runQuery still completes
\* and returns the result of the same query without the candidate-id
\* conjunct, and the request is not aborted.
C12_Original ==
    SemanticFailed =>
        /\ chat.result = runQuery(db, chat.plan, NoIds)
        /\ ~chat.result.where.idIn
        /\ chat.result.ok /\ QueryDone
        /\ "answer" \notin chat.failedCalls =>
              chat.pc = "answer" \/ chat.response = QueryResponse

\* C12 (amended): when semantic retrieval fails, runQuery goes on and does
\* exactly what the same plan does without a candidate list: it returns that
\* query's result and the request goes on to Answer Synthesis, or it throws
\* because the plan lacks the field its task requires; the failure of the
\* retrieval itself never ends the request.
C12_Amended ==
    SemanticFailed =>
        /\ chat.candidateIds = NoIds
        /\ chat.result = runQuery(db, chat.plan, NoIds)
        /\ ~chat.result.where.idIn
        /\ IF chat.result.ok
           THEN /\ QueryDone
                /\ "answer" \notin chat.failedCalls =>
                      chat.pc = "answer" \/ chat.response = QueryResponse
           ELSE /\ chat.pc = "done" /\ chat.response = ErrorResponse
                /\ \/ /\ chat.plan.task \in {Str(<<"distinct">>),
                                             Str(<<"group_count">>)}
                      /\ ~Truthy(chat.plan.targetParam)
                   \/ /\ chat.plan.task = Str(<<"sum_area">>)
                      /\ ~Truthy(chat.plan.propsFlatKey)

\* the embedding call was rejected in a partition that has embeddings, and
\* the query ran over the whole partition and was answered
C12_Witness ==
    /\ SemanticFailed
    /\ "embed" \in chat.failedCalls
    /\ chat.urn = "U1"
    /\ Cardinality(chat.result.matched) = 2
    /\ chat.response = QueryResponse

\* the value a flat property object holds at a key
ValueAt(props, key) ==
    LET hits == {i \in DOMAIN props : props[i].k = key}
    IN IF hits = {} THEN Null
       ELSE props[CHOOSE i \in hits : \A j \in hits : j <= i].v

\* a number can be extracted from the value: it is a number, or a string
\* holding a decimal number
Extractable(v) == v.t = "num" \/ (IsStr(v) /\ FirstNumber(v.s).found)
ExtractedNumber(v) == IF v.t = "num" THEN 100 * v.n ELSE FirstNumber(v.s).value

\* the rows the executed query filtered
FilteredRows == {r \in db : Satisfies(r, chat.plan.urn, chat.result.where)}

RECURSIVE SumExtracted(_, _)
SumExtracted(S, key) ==
    IF S = {} THEN 0
    ELSE LET r == CHOOSE x \in S : TRUE
             v == ValueAt(r.props, key)
         IN (IF Extractable(v) THEN ExtractedNumber(v) ELSE 0)
                + SumExtracted(S \ {r}, key)

\* C14: for task sum_area the total is the sum, over the filtered rows, of
\* the number extracted from the row's value at the area key, and the
\* contributing count is the number of filtered rows from which a number was
\* extractable.
C14_Original ==
    (QueryDone /\ chat.result.kind = "sum_area") =>
        /\ chat.result.total_area
              = SumExtracted(FilteredRows, chat.plan.propsFlatKey.s)
        /\ chat.result.n
              = Cardinality(
                    {r \in FilteredRows :
                        Extractable(ValueAt(r.props,
                                            chat.plan.propsFlatKey.s))})

\* the plan lacks the field its task requires
RequiredMissing(plan) ==
    \/ /\ plan.task \in {Str(<<"distinct">>), Str(<<"group_count">>)}
       /\ ~Truthy(plan.targetParam)
    \/ /\ plan.task = Str(<<"sum_area">>)
       /\ ~Truthy(plan.propsFlatKey)

\* C15: when the final plan has task distinct or group_count and no target
\* attribute, or task sum_area and no area key, Query Execution fails: the
\* request ends in an error without an answer, no query is executed and no
\* attribute or key is put in the place of the missing one.
C15_MissingFieldFails ==
    RequiredMissing(chat.plan) =>
        /\ "query" \notin chat.steps /\ "answer" \notin chat.steps
        /\ ~chat.response.answer
        /\ chat.result.kind \in {"none", "error"}
        /\ chat.result.values = {} /\ chat.result.groups = {}
        /\ chat.result.total_area = 0
        /\ ("runQuery" \in chat.steps /\ chat.pc # "embed") =>
              /\ chat.pc = "done" /\ chat.response = ErrorResponse
              /\ ~chat.result.ok

\* a distinct plan whose proposed target attribute was discarded by the
\* allow-list ended in an error
C15_Witness ==
    /\ chat.plan.task = Str(<<"distinct">>)
    /\ Truthy(chat.plan2.targetParam) /\ ~Truthy(chat.plan.targetParam)
    /\ "runQuery" \in chat.steps
    /\ chat.pc = "done" /\ chat.response = ErrorResponse

\* C16: a chat request whose body lacks the urn or the question is answered
\* at once with status 400: no step of the pipeline runs, the elements table
\* is not read and no inference call is made.
C16_ValidationFirst ==
    (chat.pc # "idle" /\ (chat.body.urn = "" \/ ~chat.body.question)) =>
        /\ chat.pc = "done" /\ chat.response = BadRequest
        /\ chat.steps = {} /\ chat.reads = {} /\ chat.sqlCols = {}
        /\ chat.failedCalls = {}
        /\ chat.meta = NoMeta /\ chat.result = NoResult

\* a request for an ingested partition, without a question, was rejected
C16_Witness ==
    /\ chat.body.urn = "U1" /\ ~chat.body.question
    /\ Partition(db, "U1") # {}
    /\ chat.pc = "done" /\ chat.response.status = 400

\* C19: for every sum_area query the pipeline executes, the key the area
\* value is read at is one of the areaKeys getMeta computed for the request.
C19_Original ==
    (QueryDone /\ chat.result.kind = "sum_area") =>
        chat.plan.propsFlatKey.s \in chat.meta.areaKeys

\* the place of a stage in the order of the pipeline: Catalog, Hint Matcher,
\* Category Inference, Parameter Inference (or the general answer), Value
\* Disambiguation, Query Execution with Semantic Retrieval inside it, Answer
\* Synthesis
StageRank(s) ==
    CASE s = "getMeta" -> 1 [] s = "hint" -> 2 [] s = "intent" -> 3
      [] s = "general" -> 4 [] s = "params" -> 4
      [] s = "candidates" -> 5 [] s = "value" -> 6
      [] s = "runQuery" -> 7 [] s = "embed" -> 8 [] s = "semanticSearch" -> 8
      [] s = "query" -> 9 [] s = "answer" -> 10

\* the stage that must have finished before a stage runs
StageBefore(s) ==
    CASE s = "getMeta" -> {} [] s = "hint" -> {"getMeta"}
      [] s = "intent" -> {"getMeta"} [] s = "general" -> {"intent"}
      [] s = "params" -> {"intent"} [] s = "candidates" -> {"params"}
      [] s = "value" -> {"candidates"} [] s = "runQuery" -> {"params"}
      [] s = "embed" -> {"runQuery"} [] s = "semanticSearch" -> {"runQuery"}
      [] s = "query" -> {"runQuery"} [] s = "answer" -> {"query"}

\* C20: within one request the stages run in the order of the pipeline, each
\* at most once and each after the stage before it has finished; the stage
\* in flight comes after every stage that has run; a request answered with
\* status 200 has produced exactly one answer, as its last stage.
C20_StageOrder ==
    LET log == chat.log
        Answers == {i \in DOMAIN log : log[i] \in {"general", "answer"}}
    IN /\ \A i, j \in DOMAIN log :
             i < j => StageRank(log[i]) < StageRank(log[j])
       /\ \A i \in DOMAIN log :
             StageBefore(log[i]) \subseteq {log[j] : j \in 1..(i - 1)}
       /\ chat.pc \notin {"idle", "done"} =>
             /\ \A i \in DOMAIN log : StageRank(log[i]) < StageRank(chat.pc)
             /\ StageBefore(chat.pc) \subseteq Range(log)
       /\ (chat.pc = "done" /\ chat.response.status = 200) =>
             /\ Cardinality(Answers) = 1 /\ Len(log) \in Answers
             /\ chat.response.answer

\* a request went through every stage and was answered
C20_Witness ==
    /\ chat.pc = "done" /\ chat.response.status = 200
    /\ chat.log = <<"getMeta", "hint", "intent", "params", "candidates",
                   "value", "runQuery", "semanticSearch", "query", "answer">>

\* the inference calls a request cannot do without all succeeded
InferenceSucceeded ==
    chat.failedCalls \cap {"intent", "general", "params", "answer"} = {}

\* C21: a chat request for a partition without rows completes without an
\* error: the catalog has no categories, no samples and no area keys, and
\* the request returns an empty or zero result together with an answer,
\* whatever the task of the plan.
C21_Original ==
    (chat.pc = "done" /\ chat.urn # "" /\ Partition(db, chat.urn) = {}
        /\ InferenceSucceeded) =>
        /\ chat.meta = NoMeta
        /\ chat.response.status = 200 /\ chat.response.answer
        /\ chat.result.matched = {} /\ chat.result.count = 0
        /\ chat.result.values = {} /\ chat.result.groups = {}
        /\ chat.result.total_area = 0 /\ chat.result.n = 0

\* the rows of the requested partition that satisfy the category conjunct and
\* the filter conjunct of the plan, and, when withIds, the candidate-id
\* conjunct of a semantic retrieval that returned candidates
CountedRows(withIds) ==
    LET plan == chat.plan
        filterOn == /\ Truthy(plan.filterParam)
                    /\ ~IsNullish(plan.filterValue)
                    /\ Trim(StrOf(plan.filterValue)) # <<>>
        idsOn == /\ withIds /\ chat.candidateIds # NoIds
                 /\ Len(chat.candidateIds.a) > 0
    IN {r \in db :
          /\ r.urn = plan.urn
          /\ Truthy(plan.category) =>
                r.component_type = Str(Trim(plan.category.s))
          /\ filterOn => Col(r, ParamName(plan.filterParam)) = plan.filterValue
          /\ idsOn => \E i \in DOMAIN chat.candidateIds.a :
                         chat.candidateIds.a[i] = r.id}

\* C22: for task count the returned count is the number of rows of the
\* requested partition that satisfy the category equality (when a category
\* is set) and the filter equality (when a filter attribute and a non-empty
\* value are set); rows of another partition are never counted.
C22_Original ==
    (QueryDone /\ chat.result.kind = "count") =>
        chat.result.count = Cardinality(CountedRows(FALSE))

\* C22 (amended): as C22, with the candidate-id conjunct of a semantic
\* retrieval that returned candidates among the active conjuncts.
C22_Amended ==
    (QueryDone /\ chat.result.kind = "count") =>
        /\ chat.result.count = Cardinality(CountedRows(TRUE))
        /\ \A r \in db : r.id \in chat.result.matched => r.urn = chat.plan.urn

\* a count over a category: one row of the partition was counted, and a row
\* of another partition has the same category
C22_Witness ==
    /\ QueryDone /\ chat.result.kind = "count" /\ chat.result.count = 1
    /\ Truthy(chat.plan.category)
    /\ \E r \in db : r.urn # chat.plan.urn
                       /\ r.component_type = chat.plan.category

\* C23: for task distinct the returned list holds at most limit values
\* (20 when no step supplied a number), every value is non-empty, no value
\* occurs twice, and every value is the value of the target attribute on a
\* filtered row.
C23_Original ==
    (QueryDone /\ chat.result.kind = "distinct") =>
        LET list == chat.result.list
            field == ParamName(chat.plan.targetParam)
        IN /\ Len(list) <=
                 (IF chat.plan.limit.t = "num" THEN chat.plan.limit.n
                  ELSE DefaultLimit)
           /\ \A i \in DOMAIN list : list[i] # Str(<<>>)
           /\ \A i, j \in DOMAIN list : i # j => list[i] # list[j]
           /\ \A i \in DOMAIN list :
                 \E r \in FilteredRows : norm(Col(r, field)) = list[i]

\* the category Category Inference returned, trimmed, or none
InferredCategory ==
    IF Truthy(chat.plan1.category) /\ Truthy(norm(chat.plan1.category))
    THEN norm(chat.plan1.category) ELSE Null

\* C25: a hint category that is not in the catalog's category list is never
\* taken as the plan's category: the plan's category differs from what
\* Category Inference returned only when Category Inference returned no
\* category and the hint is in the catalog, and it is then the hint.
C25_HintOnlyFromCatalog ==
    ("intent" \in chat.steps /\ ~isGeneral(chat.plan1)) =>
        /\ (Truthy(chat.hintCategory)
              /\ chat.hintCategory \notin chat.meta.categories) =>
              (Truthy(chat.plan.category) =>
                  chat.plan.category = InferredCategory)
        /\ (Truthy(chat.plan.category)
              /\ chat.plan.category # InferredCategory) =>
              /\ chat.plan.category = chat.hintCategory
              /\ chat.hintCategory \in chat.meta.categories
              /\ InferredCategory = Null

\* a hint that is not in the catalog was proposed, Category Inference
\* returned no category, and the query ran without a category
C25_Witness ==
    /\ QueryDone
    /\ Truthy(chat.hintCategory)
    /\ chat.hintCategory \notin chat.meta.categories
    /\ InferredCategory = Null /\ ~Truthy(chat.plan.category)
    /\ chat.meta.categories # {}

\* the plan as it enters the value step
PlanBeforeValue ==
    normalizeParams(mergePlan(chat.urn, chat.plan1, chat.plan.category,
                              chat.plan2))

\* C30: a rejected hint call or a rejected value call never fails the
\* request: after a hint failure the pipeline goes on to the intent prompt
\* with no hint, after a value failure it goes on to runQuery with
\* plan.filterParam and plan.filterValue as they were, and an error response
\* always has another cause (another rejected call, or a throw of runQuery).
C30_FailureTolerated ==
    /\ "hint" \in chat.failedCalls =>
         /\ chat.hintCategory = Null
         /\ chat.pc = "intent" \/ "intent" \in chat.steps \cup chat.failedCalls
    /\ "value" \in chat.failedCalls =>
         /\ "runQuery" \in chat.steps
         /\ chat.plan.filterParam = PlanBeforeValue.filterParam
         /\ chat.plan.filterValue = PlanBeforeValue.filterValue
    /\ chat.response = ErrorResponse =>
         \/ chat.failedCalls \ {"hint", "value", "embed"} # {}
         \/ "runQuery" \in chat.steps /\ ~chat.result.ok

\* the hint call and the value call were both rejected, the query ran with
\* the proposed filter value, and the request was answered
C30_Witness ==
    /\ {"hint", "value"} \subseteq chat.failedCalls
    /\ chat.pc = "done" /\ chat.response = QueryResponse
    /\ Truthy(chat.plan.filterParam) /\ Truthy(chat.plan.filterValue)

----------------------------------------------------------------------------
(* Claims about single functions *)

\* the rows of the partition that have a stored vector
RowsWithEmbedding(urn) == {r \in db : r.urn = urn /\ r.embedding # Null}

\* the row of the table with the given id
RowOf(id) == CHOOSE r \in db : r.id = id

\* C13: semanticSearch(db, urn, q, K) returns at most min(K, number of rows
\* of the partition with a stored vector) identifiers, all distinct, all of
\* rows of the partition, in an order of non-increasing cosine similarity
\* to q.
C13_TopK ==
    call.fn = "semanticSearch" =>
        LET out == call.out
            rows == RowsWithEmbedding(call.urn)
            sim(id) == cosineSimilarity(call.q, RowOf(id).embedding.e)
        IN /\ Len(out) <= call.k /\ Len(out) <= Cardinality(rows)
           /\ \A i, j \in DOMAIN out : i # j => out[i] # out[j]
           /\ \A i \in DOMAIN out : out[i] \in {r.id : r \in rows}
           /\ \A i, j \in DOMAIN out : i < j => sim(out[i]) >= sim(out[j])

\* two of three rows with vectors of different similarity to the query were
\* returned, the more similar first
C13_Witness ==
    /\ call.fn = "semanticSearch" /\ call.k = 2
    /\ Cardinality(RowsWithEmbedding(call.urn)) = 3
    /\ Len(call.out) = 2
    /\ call.out[1] > call.out[2]
    /\ cosineSimilarity(call.q, RowOf(call.out[1]).embedding.e)
          > cosineSimilarity(call.q, RowOf(call.out[2]).embedding.e)
    /\ cosineSimilarity(call.q, RowOf(call.out[2]).embedding.e) > 0

\* C17: the array generateEmbeddings(texts) returns has the length of texts;
\* position i is none exactly when texts[i] is empty, whitespace-only or not
\* a string, and otherwise holds the embedding the provider returned for the
\* trimmed texts[i], whatever the number of provider batches.
C17_Aligned ==
    (call.fn = "generateEmbeddings" /\ call.pc = "returned") =>
        /\ Len(call.out) = Len(call.texts)
        /\ \A i \in DOMAIN call.texts :
              IF validText(call.texts[i])
              THEN call.out[i] =
                      [t |-> "vec",
                       e |-> ProviderEmbedding(Trim(call.texts[i].s))]
              ELSE call.out[i] = Null

\* four texts, three of them valid and not all the same, took two provider
\* calls, and the text of the second call was not the text at its position
\* in the first
C17_Witness ==
    /\ call.fn = "generateEmbeddings" /\ call.pc = "returned"
    /\ Len(call.texts) = 4 /\ Len(call.requests) = 2
    /\ ~validText(call.texts[1])
    /\ call.out[4] # Null /\ call.out[4] # call.out[2]

\* C24: the hint step is a function of the question text alone and makes no
\* inference call: a question containing "cua so" yields Windows, and a
\* question containing "cua" but not "cua so" yields Doors.
C24_Original ==
    call.fn = "detectHintCategory" =>
        /\ call.inferenceCalls = 0
        /\ call.pc = "returned" =>
              /\ Includes(call.question, <<"cua", WS, "so">>) =>
                    call.out = Str(<<"Windows">>)
              /\ (Includes(call.question, <<"cua">>)
                    /\ ~Includes(call.question, <<"cua", WS, "so">>)) =>
                    call.out = Str(<<"Doors">>)

C27_Original ==
    call.fn \in {"bim/categories", "bim/distinct"} =>
        call.sqlCols \subseteq
            AllowedParams \cup {"component_type", "omniclass_title"}

----------------------------------------------------------------------------
(* Claims about services/gemini.js *)

\* gOutcomes is the history of the attempts of the running call: one entry per
\* geminiText call that has settled (an error, or the text that parsed).
GemJsonBounded ==
    gMode = "json" =>
        /\ gTextCalls <= gMaxRetries + 1
        /\ gProviderCalls <= gTextCalls
GemJsonFirstSuccess ==
    (gMode = "json" /\ gPc = "done" /\ gResult.t = "value") =>
        /\ gTextCalls = Len(gOutcomes)
        /\ gOutcomes[Len(gOutcomes)].t = "parsed"
        /\ gResult.v = JsonParse(stripCodeFences(gOutcomes[Len(gOutcomes)].text))
        /\ \A k \in 1..(Len(gOutcomes) - 1) : gOutcomes[k].t = "err"
GemJsonLastError ==
    (gMode = "json" /\ gPc = "done" /\ gResult.t = "throw") =>
        /\ gTextCalls = gMaxRetries + 1
        /\ Len(gOutcomes) = gMaxRetries + 1
        /\ \A k \in 1..Len(gOutcomes) : gOutcomes[k].t = "err"
        /\ gResult.err = gOutcomes[Len(gOutcomes)]
        /\ gResult.err.attempt = gMaxRetries

----------------------------------------------------------------------------
(* Claims about services/aps.js *)

\* the claim's cache-hit condition for a call with scope array sc at time t:
\* an entry for the same scope set with more than 60 seconds left
TokHit(sc, t) ==
    /\ tokenCache # Null
    /\ Range(tokenCache.scopeKey) = Range(sc)
    /\ tokenCache.expires_at_ms - t > 60 * 1000

\* the call of c returns the cached token and the provider is not contacted
TokServedFromCache(c) ==
    /\ calls'[c].pc = "done"
    /\ calls'[c].result = [t |-> "value", tok |-> tokenCache.access_token]
    /\ tokProviderCalls' = tokProviderCalls
    /\ tokenCache' = tokenCache

\* the call of c requests a new token
TokRequested(c) ==
    /\ calls'[c].pc = "await"
    /\ tokProviderCalls' = tokProviderCalls + 1

\* the response to c's request replaces the cache entry by the new token, its
\* expiry and the key of the requested scopes
TokReplaced(c) ==
    (calls[c].pc = "await" /\ calls'[c].pc = "done"
        /\ calls'[c].result.t = "value") =>
    LET tok == calls'[c].result.tok
        secs == IF tok.expires_in = 0 THEN 3600 ELSE tok.expires_in
    IN /\ tokenCache' # Null
       /\ tokenCache'.access_token = tok
       /\ tok.scope = calls[c].scopes
       /\ tokenCache'.expires_at_ms = calls[c].now0 + secs * 1000
       /\ Range(tokenCache'.scopeKey) = Range(calls[c].scopes)

TokStarts(c) == calls[c].pc = "idle" /\ calls'[c].pc # "idle"

\* C9 (as stated): a call returns the cached token without contacting the
\* provider iff the cache holds an entry for the same scope set with more than
\* 60 s left; in every other case it requests a new token, which replaces the
\* cache entry.
C9_Original ==
    [][\A c \in Callers :
         /\ TokStarts(c) =>
              IF TokHit(calls'[c].scopes, now) THEN TokServedFromCache(c)
              ELSE TokRequested(c)
         /\ TokReplaced(c)]_vars

\* C9 (amended): the same, provided the APS credentials are configured;
\* without them the call throws, contacts nobody and leaves the cache alone.
\* A failed token request leaves the cache entry as it was.
C9_Amended ==
    [][\A c \in Callers :
         /\ TokStarts(c) =>
              IF ~config.APS
              THEN /\ calls'[c].pc = "done" /\ calls'[c].result.t = "throw"
                   /\ tokProviderCalls' = tokProviderCalls
                   /\ tokenCache' = tokenCache
              ELSE IF TokHit(calls'[c].scopes, now) THEN TokServedFromCache(c)
              ELSE TokRequested(c)
         /\ TokReplaced(c)
         /\ (calls[c].pc = "await" /\ calls'[c].pc = "done"
               /\ calls'[c].result.t = "throw") => tokenCache' = tokenCache]_vars

\* a call was served from the cache although its scope array is ordered
\* differently from the one the cached token was requested with
C9_Witness ==
    \E c \in Callers :
        /\ calls[c].pc = "done" /\ calls[c].result.t = "value"
        /\ calls[c].result.tok.scope # calls[c].scopes
        /\ Range(calls[c].result.tok.scope) = Range(calls[c].scopes)
        /\ tokProviderCalls = 1

\* C28: under every interleaving of getTwoLeggedToken calls with different
\* scope sets, the token a caller receives was issued for that caller's scope
\* set, and the cache entry's token and scope key come from one response.
C28_OwnScopes ==
    /\ \A c \in Callers :
          (calls[c].pc = "done" /\ calls[c].result.t = "value") =>
              Range(calls[c].result.tok.scope) = Range(calls[c].scopes)
    /\ tokenCache # Null =>
          scopeKey(tokenCache.access_token.scope) = tokenCache.scopeKey

\* both callers asked for different scope sets at the same time, both went
\* to the provider, and the cache holds the token of the later response
C28_Witness ==
    /\ \A c \in Callers : calls[c].pc = "done" /\ calls[c].result.t = "value"
    /\ Range(calls["c1"].scopes) # Range(calls["c2"].scopes)
    /\ calls["c1"].now0 = calls["c2"].now0
    /\ calls["c1"].result.tok.id \div 10 = 2
    /\ calls["c2"].result.tok.id \div 10 = 2
    /\ tokenCache # Null /\ tokenCache.access_token = calls["c1"].result.tok

----------------------------------------------------------------------------
(* Claims about the ingest paths *)

\* C7: after a completed ingest run for a partition key, by whatever path and
\* with whatever viewable identifier, the rows stored for that key are exactly
\* the rows produced from that run's input: as many rows as input elements,
\* the same categories, and no row of an earlier run.
C7_Original ==
    run.phase = "done" =>
        LET part == Partition(db, run.urn) IN
        /\ Cardinality(part) = Len(run.input)
        /\ {r.component_type : r \in part}
               = {run.docs[i].component_type : i \in DOMAIN run.docs}
        /\ \A r \in part : r.id >= run.firstId

\* C8: when an ingest run is interrupted, the partition holds its complete
\* old row set, no rows, or the complete new row set.
C8_Original ==
    run.phase = "interrupted" =>
        LET part == Contents(Partition(db, run.urn)) IN
        \/ part = run.old
        \/ part = {}
        \/ /\ run.docs # <<>>
           /\ part = Contents(Range(run.docs))

\* C18: every row an ingest path has written has a non-empty category, and
\* the category is a normalized label (normalizing it again changes nothing),
\* never the raw label of the source such as "Revit Walls".
C18_Original ==
    \A r \in db :
        /\ IsStr(r.component_type) /\ Trim(r.component_type.s) # <<>>
        /\ normalizeCategory(r.component_type) = r.component_type

\* the rows stored for the key (urn, guid) of the running extract
ExtractRows == {r \in db : r.urn = run.urn /\ r.guid = run.guid}

============================================================================
